---------------------------- MODULE Spec2Model ----------------------------
(***************************************************************************)
(* A model of the ingestion pipeline of backend3.py (init_database): the   *)
(* check of an existing SQLite store, the discovery of the 2024 parquet    *)
(* files, the per-file cleaning / enrichment / outlier filter / append,    *)
(* and the index creation and result.                                      *)
(*                                                                         *)
(* Numbers.  Fares are whole dollars, distances whole miles, durations     *)
(* whole seconds.  Every quotient the code computes in floating point      *)
(* (price_per_mile, duration_minutes, wait_time_minutes) is kept as an     *)
(* exact fraction [num, den] and compared by cross-multiplication.         *)
(*                                                                         *)
(* Missing values.  A missing scalar (NaN / None) is the empty sequence    *)
(* <<>>, a present one the one-element sequence <<v>>.  A timestamp is a   *)
(* record with a kind: "null" (missing), "bad" (a value pd.to_datetime     *)
(* cannot parse) or "ts".                                                  *)
(***************************************************************************)
EXTENDS Integers, Sequences, FiniteSets

(***************************************************************************)
(* Bounds of the model.                                                    *)
(***************************************************************************)
MaxFiles == 2

MaxBatchLen == 2

(***************************************************************************)
(* Program constants.                                                      *)
(***************************************************************************)
TargetYear == 2024

MaxPricePerMile == 50

MaxTotalFare == 500

MinDurationMinutes == 1

MaxDurationMinutes == 300

MaxTripMiles == 100

SecondsPerMinute == 60

MaxWaitMinutes == 60

(***************************************************************************)
(* Optional scalars and exact fractions.                                   *)
(***************************************************************************)
Null == <<>>

Some(v) == <<v>>

IsNull(x) == x = <<>>

Val(x) == x[1]

Rat(n, d) == [num |-> n, den |-> d]

RLt(a, b) == a.num * b.den < b.num * a.den

RLe(a, b) == a.num * b.den <= b.num * a.den

REq(a, b) == a.num * b.den = b.num * a.den

\* Series.fillna(0): a missing value counts as 0.
fillna0(x) == IF IsNull(x) THEN 0 ELSE Val(x)

\* Series.clip(lo, hi) on one value.
clip(x, lo, hi) == IF RLt(x, lo) THEN lo ELSE IF RLt(hi, x) THEN hi ELSE x

(***************************************************************************)
(* Timestamps.  A parsed pickup timestamp is [year, month, day, hour];     *)
(* .dt.dayofweek is computed from the calendar (Monday = 0).  The calendar *)
(* covers the years 2023 .. 2025; 2023-01-01 was a Sunday.                 *)
(***************************************************************************)
NullTs == [kind |-> "null", year |-> 0, month |-> 0, day |-> 0, hour |-> 0]

BadTs == [kind |-> "bad", year |-> 0, month |-> 0, day |-> 0, hour |-> 0]

Ts(y, m, d, h) == [kind |-> "ts", year |-> y, month |-> m, day |-> d, hour |-> h]

IsLeap(y) == (y % 4 = 0 /\ y % 100 # 0) \/ y % 400 = 0

DaysInMonth(y, m) ==
    IF m = 2 THEN (IF IsLeap(y) THEN 29 ELSE 28)
    ELSE IF m \in {4, 6, 9, 11} THEN 30 ELSE 31

RECURSIVE DaysBeforeMonth(_, _)
DaysBeforeMonth(y, m) ==
    IF m <= 1 THEN 0 ELSE DaysBeforeMonth(y, m - 1) + DaysInMonth(y, m - 1)

RECURSIVE DaysBeforeYear(_)
DaysBeforeYear(y) ==
    IF y <= 2023 THEN 0
    ELSE DaysBeforeYear(y - 1) + (IF IsLeap(y - 1) THEN 366 ELSE 365)

dayofweek(t) ==
    (6 + DaysBeforeYear(t.year) + DaysBeforeMonth(t.year, t.month) + (t.day - 1)) % 7

\* A request / on-scene timestamp: seconds on a common clock.
NullClock == [kind |-> "null", secs |-> 0]

BadClock == [kind |-> "bad", secs |-> 0]

Clock(s) == [kind |-> "ts", secs |-> s]

(***************************************************************************)
(* Columns of a raw parquet file and of the fhvhv table.                   *)
(***************************************************************************)
FareColumns ==
    <<"base_passenger_fare", "tolls", "bcf", "sales_tax",
      "congestion_surcharge", "airport_fee">>

RequiredColumns ==
    {"pickup_datetime", "dropoff_datetime", "PULocationID", "DOLocationID",
     "trip_miles", "trip_time"}

WaitColumns == {"request_datetime", "on_scene_datetime"}

RawColumns ==
    RequiredColumns \cup {FareColumns[k] : k \in 1..Len(FareColumns)} \cup WaitColumns

columns_to_keep ==
    {"PULocationID", "DOLocationID", "pickup_datetime", "pickup_hour",
     "day_of_week", "pickup_month", "day_type", "trip_miles",
     "duration_minutes", "price_per_mile", "total_fare_amount",
     "wait_time_minutes"}

SentinelColumn == "total_fare_amount"

IndexColumns ==
    [idx_pu_do |-> {"PULocationID", "DOLocationID"},
     idx_pickup_hour |-> {"pickup_hour"},
     idx_day_of_week |-> {"day_of_week"},
     idx_pickup_month |-> {"pickup_month"},
     idx_day_type |-> {"day_type"}]


(***************************************************************************)
(* The body of the per-file loop (lines 117-214) as functions of the file. *)
(* A file is [readable, columns, records]; a frame is a sequence of        *)
(* [index, rec] (or [index, row]) entries: filtering a DataFrame keeps     *)
(* each surviving row under its original index label.                      *)
(***************************************************************************)
read_parquet(file) ==
    [i \in 1..Len(file.records) |-> [index |-> i, rec |-> file.records[i]]]

\* Line 126: df.dropna(subset=[pickup_datetime, dropoff_datetime, PU, DO]).
dropna(frame) ==
    SelectSeq(frame, LAMBDA e :
        /\ e.rec.pickup_datetime.kind # "null"
        /\ e.rec.dropoff_datetime.kind # "null"
        /\ ~IsNull(e.rec.PULocationID)
        /\ ~IsNull(e.rec.DOLocationID))

\* A comparison with NaN is False.
GtZero(x) == ~IsNull(x) /\ Val(x) > 0

\* Line 127: df[(df['trip_miles'] > 0) & (df['trip_time'] > 0)].
positive_filter(frame) ==
    SelectSeq(frame, LAMBDA e : GtZero(e.rec.trip_miles) /\ GtZero(e.rec.trip_time))

\* Line 136: pd.to_datetime(df['pickup_datetime']) raises on a bad value.
pickup_parse_fails(frame) ==
    \E k \in 1..Len(frame) : frame[k].rec.pickup_datetime.kind = "bad"

\* year_filter without the filter: every parsed year is kept.
year_filter_off(frame) == frame

\* Line 137: df[df['pickup_datetime'].dt.year == 2024].
year_filter(frame) ==
    SelectSeq(frame, LAMBDA e : e.rec.pickup_datetime.year = TargetYear)

\* Line 152.
day_type(dow) == IF dow \in {5, 6} THEN "weekend" ELSE "weekday"

\* total_fare with the last component left out of the sum.
total_fare_without_airport_fee(rec) ==
    fillna0(rec.base_passenger_fare) + fillna0(rec.tolls) + fillna0(rec.bcf)
    + fillna0(rec.sales_tax) + fillna0(rec.congestion_surcharge)

\* Lines 155-162: the sum of the six components, each .fillna(0).
total_fare(rec) ==
    fillna0(rec.base_passenger_fare) + fillna0(rec.tolls) + fillna0(rec.bcf)
    + fillna0(rec.sales_tax) + fillna0(rec.congestion_surcharge)
    + fillna0(rec.airport_fee)

\* Lines 174-175: pd.to_datetime of either column raises on a bad value.
wait_parse_fails(frame) ==
    \E k \in 1..Len(frame) :
        \/ frame[k].rec.request_datetime.kind = "bad"
        \/ frame[k].rec.on_scene_datetime.kind = "bad"

\* wait_time clipped from below only.
wait_time_uncapped(rec) ==
    IF rec.request_datetime.kind = "null" \/ rec.on_scene_datetime.kind = "null"
    THEN Rat(0, 1)
    ELSE IF rec.on_scene_datetime.secs < rec.request_datetime.secs
    THEN Rat(0, 1)
    ELSE Rat(rec.on_scene_datetime.secs - rec.request_datetime.secs,
             SecondsPerMinute)

\* Lines 176-177: (on_scene - request) in minutes, .fillna(0).clip(0, 60).
wait_time(rec) ==
    IF rec.request_datetime.kind = "null" \/ rec.on_scene_datetime.kind = "null"
    THEN clip(Rat(0, 1), Rat(0, 1), Rat(MaxWaitMinutes, 1))
    ELSE clip(Rat(rec.on_scene_datetime.secs - rec.request_datetime.secs,
                  SecondsPerMinute),
              Rat(0, 1), Rat(MaxWaitMinutes, 1))

\* Lines 172-181: the whole column falls back to 0 when the file lacks one
\* of the two columns or when parsing either column raises.
wait_time_minutes(file, frame, rec) ==
    IF WaitColumns \subseteq file.columns
    THEN (IF wait_parse_fails(frame) THEN Rat(0, 1) ELSE wait_time(rec))
    ELSE Rat(0, 1)

\* Lines 147-190: the derived fields and the twelve columns kept.
enrich(file, frame, rec) ==
    [PULocationID |-> Val(rec.PULocationID),
     DOLocationID |-> Val(rec.DOLocationID),
     pickup_datetime |-> rec.pickup_datetime,
     pickup_hour |-> rec.pickup_datetime.hour,
     day_of_week |-> dayofweek(rec.pickup_datetime),
     pickup_month |-> rec.pickup_datetime.month,
     day_type |-> day_type(dayofweek(rec.pickup_datetime)),
     trip_miles |-> Val(rec.trip_miles),
     duration_minutes |-> Rat(Val(rec.trip_time), SecondsPerMinute),
     price_per_mile |-> Rat(total_fare(rec), Val(rec.trip_miles)),
     total_fare_amount |-> total_fare(rec),
     wait_time_minutes |-> wait_time_minutes(file, frame, rec)]

\* within_bounds without the cap on the total fare.
within_bounds_without_fare_cap(row) ==
    /\ RLt(Rat(0, 1), row.price_per_mile)
    /\ RLt(row.price_per_mile, Rat(MaxPricePerMile, 1))
    /\ row.total_fare_amount > 0
    /\ RLt(Rat(MinDurationMinutes, 1), row.duration_minutes)
    /\ RLt(row.duration_minutes, Rat(MaxDurationMinutes, 1))
    /\ row.trip_miles < MaxTripMiles

\* Lines 193-201: the outlier filter on one cleaned row.
within_bounds(row) ==
    /\ RLt(Rat(0, 1), row.price_per_mile)
    /\ RLt(row.price_per_mile, Rat(MaxPricePerMile, 1))
    /\ row.total_fare_amount > 0
    /\ row.total_fare_amount < MaxTotalFare
    /\ RLt(Rat(MinDurationMinutes, 1), row.duration_minutes)
    /\ RLt(row.duration_minutes, Rat(MaxDurationMinutes, 1))
    /\ row.trip_miles < MaxTripMiles

outlier_filter(frame) == SelectSeq(frame, LAMBDA e : within_bounds(e.row))

FareColumnSet == {FareColumns[k] : k \in 1..Len(FareColumns)}

(***************************************************************************)
(* One file through the loop body up to the write: status "error" (an      *)
(* exception, caught at line 216), "empty" (one of the two `continue`s) or *)
(* "clean" with the frame df_clean handed to to_sql.                       *)
(***************************************************************************)
process_file(file) ==
    IF ~file.readable \/ ~(RequiredColumns \subseteq file.columns)
    THEN [status |-> "error", df_clean |-> <<>>]
    ELSE LET cleaned == positive_filter(dropna(read_parquet(file))) IN
         IF Len(cleaned) = 0
         THEN [status |-> "empty", df_clean |-> <<>>]
         ELSE IF pickup_parse_fails(cleaned)
         THEN [status |-> "error", df_clean |-> <<>>]
         ELSE LET in_year == year_filter(cleaned) IN
              IF Len(in_year) = 0
              THEN [status |-> "empty", df_clean |-> <<>>]
              ELSE IF ~(FareColumnSet \subseteq file.columns)
              THEN [status |-> "error", df_clean |-> <<>>]
              ELSE [status |-> "clean",
                    df_clean |-> outlier_filter(
                        [k \in 1..Len(in_year) |->
                            [index |-> in_year[k].index,
                             row |-> enrich(file, in_year, in_year[k].rec)]])]

\* df_clean without its index labels (to_sql(..., index=False)).
rows_of(frame) == [k \in 1..Len(frame) |-> frame[k].row]

(***************************************************************************)
(* Inputs.  BaseRecord is a valid trip (zones 10 -> 20, Monday 2024-01-01  *)
(* 08h, 5 miles, 600 s, fare 32+1+2+4+8+16 = 63, 5 minutes of wait); the   *)
(* other records change some of its fields.                                *)
(***************************************************************************)
BaseRecord ==
    [PULocationID |-> Some(10), DOLocationID |-> Some(20),
     pickup_datetime |-> Ts(2024, 1, 1, 8),
     dropoff_datetime |-> Ts(2024, 1, 1, 8),
     trip_miles |-> Some(5), trip_time |-> Some(600),
     base_passenger_fare |-> Some(32), tolls |-> Some(1), bcf |-> Some(2),
     sales_tax |-> Some(4), congestion_surcharge |-> Some(8),
     airport_fee |-> Some(16),
     request_datetime |-> Clock(100), on_scene_datetime |-> Clock(400)]

\* A second valid trip: another route, a Saturday, two components and the
\* request timestamp missing.
SecondRecord ==
    [BaseRecord EXCEPT !.PULocationID = Some(30),
                       !.pickup_datetime = Ts(2024, 3, 2, 23),
                       !.tolls = Null, !.airport_fee = Null,
                       !.request_datetime = NullClock]

\* The records of the files the ingestion run reads: the two valid trips,
\* one without pickup zone, one with a total fare of 500 (at 25 a mile) and
\* one that lasted one minute.
SmallRecords ==
    {BaseRecord, SecondRecord,
     [BaseRecord EXCEPT !.PULocationID = Null],
     [BaseRecord EXCEPT !.base_passenger_fare = Some(MaxTotalFare - 31),
                        !.trip_miles = Some(20)],
     [BaseRecord EXCEPT !.trip_time = Some(SecondsPerMinute)]}

\* The records of the multi-record batches of SpecBatch.
MediumRecords ==
    SmallRecords \cup
    {[BaseRecord EXCEPT !.request_datetime = BadClock],
     [BaseRecord EXCEPT !.on_scene_datetime = Clock(4000)],
     [BaseRecord EXCEPT !.pickup_datetime = Ts(2023, 12, 31, 23)],
     [BaseRecord EXCEPT !.pickup_datetime = BadTs],
     [BaseRecord EXCEPT !.pickup_datetime = BadTs, !.trip_miles = Some(0)]}

OptZone == {Null, Some(10), Some(265)}

PickupValues ==
    {NullTs, BadTs, Ts(2023, 12, 31, 23), Ts(2024, 1, 1, 0), Ts(2024, 2, 29, 12),
     Ts(2024, 12, 31, 23), Ts(2025, 1, 1, 0)}

MilesValues == {Null, Some(-1), Some(0), Some(1), Some(99), Some(100)}

TimeValues == {Null, Some(0), Some(60), Some(61), Some(17999), Some(18000)}

BaseFareValues == {Null, Some(-40), Some(-31), Some(19), Some(20), Some(468), Some(469)}

ClockValues == {NullClock, BadClock, Clock(100), Clock(400), Clock(3700), Clock(3701)}

\* Single records of SpecBatch: who / when, how far / how long / how much,
\* every presence pattern of the six fare components, and the wait inputs.
RichRecords ==
    {[BaseRecord EXCEPT !.PULocationID = pu, !.DOLocationID = do,
                        !.pickup_datetime = pk, !.dropoff_datetime = dr] :
        pu \in OptZone, do \in OptZone, pk \in PickupValues,
        dr \in {NullTs, BadTs, Ts(2024, 1, 1, 9)}}
    \cup
    {[BaseRecord EXCEPT !.trip_miles = mi, !.trip_time = tt,
                        !.base_passenger_fare = bf] :
        mi \in MilesValues, tt \in TimeValues, bf \in BaseFareValues}
    \cup
    {[BaseRecord EXCEPT !.base_passenger_fare = IF 1 \in p THEN @ ELSE Null,
                        !.tolls = IF 2 \in p THEN @ ELSE Null,
                        !.bcf = IF 3 \in p THEN @ ELSE Null,
                        !.sales_tax = IF 4 \in p THEN @ ELSE Null,
                        !.congestion_surcharge = IF 5 \in p THEN @ ELSE Null,
                        !.airport_fee = IF 6 \in p THEN @ ELSE Null] :
        p \in SUBSET (1..6)}
    \cup
    {[BaseRecord EXCEPT !.request_datetime = rq, !.on_scene_datetime = os] :
        rq \in ClockValues, os \in ClockValues}

SeqsUpTo(S, n) == UNION {[1..k -> S] : k \in 0..n}

File(cols, recs) == [readable |-> TRUE, columns |-> cols, records |-> recs]

UnreadableFile == [readable |-> FALSE, columns |-> {}, records |-> <<>>]

\* Records at other bounds of the filters: a total fare of 0, 63 a mile,
\* 100 miles, 300 minutes, and a pickup in 2023.
BoundaryRecords ==
    {[BaseRecord EXCEPT !.base_passenger_fare = Some(-31)],
     [BaseRecord EXCEPT !.trip_miles = Some(1)],
     [BaseRecord EXCEPT !.trip_miles = Some(MaxTripMiles)],
     [BaseRecord EXCEPT !.trip_time = Some(SecondsPerMinute * MaxDurationMinutes)],
     [BaseRecord EXCEPT !.pickup_datetime = Ts(2023, 12, 31, 23)]}

\* What read_parquet may find behind a discovered file name during a run.
MainFiles ==
    {UnreadableFile, File(RawColumns \ {"airport_fee"}, <<BaseRecord>>)}
    \cup {File(RawColumns, s) : s \in SeqsUpTo(SmallRecords, MaxBatchLen)}
    \cup {File(RawColumns, <<r>>) : r \in BoundaryRecords}

\* The files SpecBatch puts through the loop body.
BatchFiles ==
    {UnreadableFile}
    \cup {File(c, <<r>>) : r \in RichRecords,
            c \in {RawColumns, RawColumns \ WaitColumns,
                   RawColumns \ {"airport_fee"}, RawColumns \ {"trip_time"}}}
    \cup {File(RawColumns, s) : s \in SeqsUpTo(MediumRecords, MaxBatchLen)}

(***************************************************************************)
(* The store: the SQLite file at db_path.  columns = {} means the file     *)
(* holds no table fhvhv; corrupt means SQLite cannot read the file.        *)
(***************************************************************************)
AbsentDb ==
    [exists |-> FALSE, corrupt |-> FALSE, columns |-> {}, rows |-> <<>>,
     indexes |-> {}]

IndexOrder ==
    <<"idx_pu_do", "idx_pickup_hour", "idx_day_of_week", "idx_pickup_month",
      "idx_day_type">>

AllIndexes == {IndexOrder[k] : k \in 1..Len(IndexOrder)}

\* A row as a table with the given columns holds it.
Project(row, cols) == IF cols = columns_to_keep THEN row ELSE [c \in cols |-> row[c]]

\* Rows an earlier run of this code wrote.
OldRows == {e.row : e \in {process_file(File(RawColumns, <<r>>)).df_clean[1] :
                r \in {BaseRecord, SecondRecord}}}

\* Table layouts a store found at db_path may have: the current one, one
\* from before total_fare_amount was added, and two that have
\* total_fare_amount but lack another of the current columns.
KnownLayouts ==
    {columns_to_keep, columns_to_keep \ {SentinelColumn},
     columns_to_keep \ {"wait_time_minutes"}, columns_to_keep \ {"day_type"}}

\* Rows found in a store at the start: none, one or two.
OldRowSeqs ==
    {<<>>} \cup {<<r>> : r \in OldRows} \cup {<<r, q>> : r, q \in OldRows}

\* The stores a first call may find at db_path.  A store with a table was
\* left by a completed run, which always creates the indexes (line 223).
InitialStores ==
    {AbsentDb,
     [AbsentDb EXCEPT !.exists = TRUE, !.corrupt = TRUE],
     [AbsentDb EXCEPT !.exists = TRUE]}
    \cup
    {[exists |-> TRUE, corrupt |-> FALSE, columns |-> cols,
      rows |-> [k \in 1..Len(s) |-> Project(s[k], cols)],
      indexes |-> {i \in AllIndexes : IndexColumns[i] \subseteq cols}] :
        cols \in KnownLayouts, s \in OldRowSeqs}

(***************************************************************************)
(* The input directory FHVHV_PATH.  A file name is the record of its       *)
(* parts; ext is what the name ends with.                                  *)
(***************************************************************************)
FileName(pre, yr, m, ext) == [prefix |-> pre, year |-> yr, month |-> m, ext |-> ext]

OtherNames ==
    {FileName("fhvhv_tripdata_", "2023", 12, ".parquet"),
     FileName("notes_", "2024", 0, ".txt")}

\* os.listdir(FHVHV_PATH): it raises when the directory does not exist.
\* Otherwise the directory holds the first k monthly files of 2024 and any
\* of the other names.
Listings ==
    {[exists |-> FALSE, names |-> {}]}
    \cup {[exists |-> TRUE,
           names |-> {FileName("fhvhv_tripdata_", "2024", m, ".parquet") :
                         m \in 1..k} \cup others] :
            k \in 0..MaxFiles, others \in SUBSET OtherNames}

\* Line 77: file.endswith('.parquet') and '2024' in file.
is_2024_parquet(name) == name.ext = ".parquet" /\ "2024" \in {name.prefix, name.year}

\* Lines 75-78: the matching names as a list.  os.listdir gives no order;
\* nothing read later depends on it, so the list is taken by month.
find_parquet_files(names) ==
    LET S == {n \in names : is_2024_parquet(n)} IN
    CHOOSE f \in [1..Cardinality(S) -> S] :
        \A a, b \in 1..Cardinality(S) : a < b => f[a].month < f[b].month

(***************************************************************************)
(* State.                                                                  *)
(*   db             the store                                              *)
(*   pc             where init_database stands: "idle" (never called),     *)
(*                  "discover", "load", "index", "done" (returned)         *)
(*   parquet_files, file_idx, total_records, records_added                 *)
(*                  locals of init_database (records_added: of the last    *)
(*                  file written, 0 before)                                *)
(*   result         "none", "True" or "False": what the call returned      *)
(*   df, df_clean   the loop body's frames; the run deletes them (line     *)
(*                  214), SpecBatch keeps them to relate rows to records   *)
(* History:                                                                *)
(*   pre            the store as the current call found it                 *)
(*   store_check    which branch of lines 48-70 the call took              *)
(*   appended       the rows to_sql wrote during the current call          *)
(*   batch_status   how the last file went: "none", "error", "empty", "ok" *)
(***************************************************************************)
VARIABLES db, pc, parquet_files, file_idx, total_records, records_added,
          result, df, df_clean, pre, store_check, appended, batch_status

\* The query handlers (lines 457-856):
\*   request      the arguments of the last request handled
\*   response     what the handler returned for it
\*   connections  the connections the handler opened for it
\*   queries      the statements the handler executed for it
\*   tie_order    how the engine orders result rows equal on every ORDER BY
\*                term: SQL leaves it open, the engine emits the groups of
\*                GROUP BY by key, ascending ("asc") or descending ("desc")
VARIABLES request, response, connections, queries, tie_order

\* The handlers run by the threads of the server (app.run serves each
\* request in a thread of its own):
\*   threads   per thread, the request it handles, its position in the
\*             handler, the results it has fetched and its response
\*   cursors   per cursor, the result of the statement last executed on it
VARIABLES threads, cursors

qvars == <<request, response, connections, queries, tie_order,
           threads, cursors>>

vars == <<db, pc, parquet_files, file_idx, total_records, records_added,
          result, df, df_clean, pre, store_check, appended, batch_status,
          request, response, connections, queries, tie_order,
          threads, cursors>>

\* The threads of the server that handle requests at the same time.
Threads == {"t1", "t2"}

NoRequest == [op |-> "none"]

NoResponse == [status |-> 0]

\* A cursor on which nothing was executed.
NoResult == [kind |-> "none", val |-> 0]

\* A thread that handles no request.
IdleThread ==
    [pc |-> "idle", request |-> NoRequest, k |-> 0, fetched |-> <<>>,
     response |-> NoResponse]

NoThreads ==
    /\ threads = [t \in Threads |-> IdleThread]
    /\ cursors = [t \in Threads |-> NoResult]

\* No request has been handled.
NoQuery ==
    /\ request = NoRequest
    /\ response = NoResponse
    /\ connections = 0
    /\ queries = 0
    /\ tie_order = "asc"
    /\ NoThreads

\* check_store that stops at os.path.exists: any file is a valid store.
check_store_exists_only(d) == IF d.exists THEN "valid" ELSE "missing"

\* check_store that never accepts a store: a populated one counts as empty.
check_store_never_valid(d) ==
    IF ~d.exists THEN "missing"
    ELSE IF d.corrupt THEN "corrupt"
    ELSE IF SentinelColumn \in d.columns THEN "empty" ELSE "incompatible"

\* check_store without the row count: the column alone makes a store valid.
check_store_without_count(d) ==
    IF ~d.exists THEN "missing"
    ELSE IF d.corrupt THEN "corrupt"
    ELSE IF SentinelColumn \in d.columns THEN "valid" ELSE "incompatible"

\* Lines 48-70: what the check of the existing store finds.
check_store(d) ==
    IF ~d.exists THEN "missing"
    ELSE IF d.corrupt THEN "corrupt"
    ELSE IF SentinelColumn \in d.columns
         THEN (IF Len(d.rows) > 0 THEN "valid" ELSE "empty")
         ELSE "incompatible"

\* removes_store without the os.remove of the except branch (line 70).
removes_store_not_corrupt(check) == check = "incompatible"

\* Lines 67 and 70: os.remove(db_path).
removes_store(check) == check \in {"incompatible", "corrupt"}

\* Lines 47-70: a call of init_database starts.
CheckExistingStore ==
    /\ pc \in {"idle", "done"}
    /\ pre' = db
    /\ store_check' = check_store(db)
    /\ db' = IF removes_store(check_store(db)) THEN AbsentDb ELSE db
    /\ pc' = IF check_store(db) = "valid" THEN "done" ELSE "discover"
    /\ result' = IF check_store(db) = "valid" THEN "True" ELSE "none"
    /\ parquet_files' = <<>>
    /\ file_idx' = 0
    /\ total_records' = 0
    /\ records_added' = 0
    /\ appended' = <<>>
    /\ batch_status' = "none"
    /\ UNCHANGED <<df, df_clean>>
    /\ UNCHANGED qvars

\* Lines 93-111: sqlite3.connect and CREATE TABLE IF NOT EXISTS.
create_table(d) ==
    [d EXCEPT !.exists = TRUE,
              !.columns = IF d.columns = {} THEN columns_to_keep ELSE @]

\* store_after_discovery with the connection opened before the files are
\* looked for.
store_after_discovery_eager(d, found) == IF d.corrupt THEN d ELSE create_table(d)

\* Lines 80-111: the store when discovery ends: untouched when no file
\* matched (line 86) or SQLite cannot read it, else with the table.
store_after_discovery(d, found) ==
    IF Len(found) = 0 \/ d.corrupt THEN d ELSE create_table(d)

\* Lines 72-111: discovery, then the connection and the table.  An
\* exception (no directory, an unreadable store) ends the call at line 240.
DiscoverFiles ==
    /\ pc = "discover"
    /\ \E listing \in Listings :
        LET found == IF listing.exists THEN find_parquet_files(listing.names)
                     ELSE <<>>
        IN  /\ parquet_files' = found
            /\ IF Len(found) = 0 \/ db.corrupt
               THEN /\ pc' = "done"
                    /\ result' = "False"
               ELSE /\ pc' = "load"
                    /\ result' = "none"
            /\ db' = store_after_discovery(db, found)
    /\ UNCHANGED <<file_idx, total_records, records_added, df, df_clean, pre,
                   store_check, appended, batch_status>>
    /\ UNCHANGED qvars

\* Line 207: df_clean.to_sql('fhvhv', conn, if_exists='append'): one
\* transaction; it raises when the table lacks a column of the frame.
to_sql_fails(frame, d) == Len(frame) > 0 /\ ~(columns_to_keep \subseteq d.columns)

\* batch_rows of a write that is not one transaction: the rows stay when
\* to_sql raises.
batch_rows_kept_on_failure(out, d) ==
    IF out.status = "clean" THEN rows_of(out.df_clean) ELSE <<>>

\* Lines 207-210: the rows an iteration writes: those of df_clean, none
\* when the iteration ended early or to_sql raised.
batch_rows(out, d) ==
    IF out.status = "clean" /\ ~to_sql_fails(out.df_clean, d)
    THEN rows_of(out.df_clean) ELSE <<>>

\* Lines 131-143 and 216-218: how an iteration ends.
batch_outcome(out, d) ==
    IF out.status = "clean"
    THEN (IF to_sql_fails(out.df_clean, d) THEN "error" ELSE "ok")
    ELSE out.status

\* loop_done that leaves the loop after the first file.
loop_done_after_first(idx, n) == idx >= 1

\* Line 114: the for loop ends when every file of parquet_files was visited.
loop_done(idx, n) == idx = n

\* Lines 114-218: one iteration of the loop over parquet_files.
load_batch(out) ==
    \E new_rows \in {batch_rows(out, db)} :
        /\ pc = "load"
        /\ file_idx < Len(parquet_files)
        /\ db' = [db EXCEPT !.rows = @ \o new_rows]
        /\ appended' = appended \o new_rows
        /\ batch_status' = batch_outcome(out, db)
        /\ total_records' = IF batch_outcome(out, db) = "ok"
                            THEN total_records + Len(out.df_clean)
                            ELSE total_records
        /\ records_added' = IF batch_outcome(out, db) = "ok"
                            THEN Len(out.df_clean) ELSE records_added
        /\ file_idx' = file_idx + 1
        /\ pc' = IF loop_done(file_idx + 1, Len(parquet_files))
                 THEN "index" ELSE "load"
        /\ UNCHANGED <<parquet_files, result, pre, store_check>>
        /\ UNCHANGED qvars

\* Each file a run may read, with what the loop body makes of it.
MainOutcomes == {[file |-> f, out |-> process_file(f)] : f \in MainFiles}

LoadBatch ==
    /\ \E fo \in MainOutcomes : load_batch(fo.out)
    /\ UNCHANGED <<df, df_clean>>

\* Lines 223-227: the indexes created, in order, up to the first one whose
\* column the table lacks (CREATE INDEX raises there).
RECURSIVE indexes_created(_, _)
indexes_created(cols, k) ==
    IF k > Len(IndexOrder) \/ ~(IndexColumns[IndexOrder[k]] \subseteq cols)
    THEN {}
    ELSE {IndexOrder[k]} \cup indexes_created(cols, k + 1)

\* final_result without the check of the total (lines 232-234).
final_result_always_true(total) == "True"

\* Lines 232-238: the value returned after the loop.
final_result(total) == IF total = 0 THEN "False" ELSE "True"

\* on_exception without the handler: the exception leaves init_database.
on_exception_propagates == "raised"

\* Lines 240-243: except Exception: ... return False.
on_exception == "False"

\* Lines 220-238: the indexes, commit, close and the result.
CreateIndexes ==
    /\ pc = "index"
    /\ db' = [db EXCEPT !.indexes = @ \cup indexes_created(db.columns, 1)]
    /\ result' = IF indexes_created(db.columns, 1) = AllIndexes
                 THEN final_result(total_records) ELSE on_exception
    /\ pc' = "done"
    /\ UNCHANGED <<parquet_files, file_idx, total_records, records_added, df,
                   df_clean, pre, store_check, appended, batch_status>>
    /\ UNCHANGED qvars

NoFrame == <<>>

Init ==
    /\ db \in InitialStores
    /\ pc = "idle"
    /\ parquet_files = <<>>
    /\ file_idx = 0
    /\ total_records = 0
    /\ records_added = 0
    /\ result = "none"
    /\ df = UnreadableFile
    /\ df_clean = NoFrame
    /\ pre = AbsentDb
    /\ store_check = "none"
    /\ appended = <<>>
    /\ batch_status = "none"
    /\ NoQuery

Next == CheckExistingStore \/ DiscoverFiles \/ LoadBatch \/ CreateIndexes

Spec == Init /\ [][Next]_vars

\* A call of init_database that has started goes on: the code between two
\* steps is sequential and nothing waits.  When a call starts is up to the
\* caller.
SpecFair ==
    /\ Spec
    /\ WF_vars(DiscoverFiles)
    /\ WF_vars(LoadBatch)
    /\ WF_vars(CreateIndexes)

(***************************************************************************)
(* SpecBatch: the loop body as a function of one file.  The store is a     *)
(* fresh table, the file is drawn from BatchFiles, and the one step is the *)
(* iteration of the loop on it, with the frame it wrote kept in df_clean.  *)
(***************************************************************************)
InitBatch ==
    /\ db = create_table(AbsentDb)
    /\ pc = "load"
    /\ parquet_files = <<FileName("fhvhv_tripdata_", "2024", 1, ".parquet")>>
    /\ file_idx = 0
    /\ total_records = 0
    /\ records_added = 0
    /\ result = "none"
    /\ df \in BatchFiles
    /\ df_clean = NoFrame
    /\ pre = AbsentDb
    /\ store_check = "missing"
    /\ appended = <<>>
    /\ batch_status = "none"
    /\ NoQuery

BatchStep ==
    \E out \in {process_file(df)} :
        /\ load_batch(out)
        /\ df_clean' = out.df_clean
        /\ df' = df

NextBatch == BatchStep

SpecBatch == InitBatch /\ [][NextBatch]_vars

(***************************************************************************)
(* The query handlers.  A SELECT is computed on db.rows, the table in      *)
(* insertion (rowid) order; AVG and SUM are exact fractions.               *)
(***************************************************************************)
\* Lines 483-484, 677-678, 782-783: the reserved zone id.
UnknownZone == 265

\* Line 682: HAVING COUNT(*) >= 5.
MinVolumeDayHour == 5

\* Line 787: HAVING COUNT(*) >= 20.
MinVolumeMonth == 20

\* Lines 697, 712, 802, 817: LIMIT 10.
TopLimit == 10

RECURSIVE GCD(_, _)
GCD(a, b) == IF b = 0 THEN a ELSE GCD(b, a % b)

\* The same fraction in lowest terms.
RNorm(x) ==
    LET g == GCD(IF x.num < 0 THEN 0 - x.num ELSE x.num, x.den)
    IN  IF g = 0 THEN x ELSE Rat(x.num \div g, x.den \div g)

RAdd(a, b) ==
    IF a.den = b.den THEN Rat(a.num + b.num, a.den)
    ELSE RNorm(Rat(a.num * b.den + b.num * a.den, a.den * b.den))

\* The columns are REAL: SUM and AVG add IEEE doubles row by row, in the
\* order the rows are visited, and each addition rounds to the nearest
\* value the significand holds, ties to even.  The model keeps a
\* significand of SignificandBits bits (53 in a double), so that sums up to
\* 2^SignificandBits are exact and larger ones are rounded.
SignificandBits == 11

FloatLimit == 2 ^ SignificandBits

RECURSIVE float_scale(_, _)
float_scale(n, s) == IF n < FloatLimit * s THEN s ELSE float_scale(n, 2 * s)

float_round(n) ==
    LET a == IF n < 0 THEN 0 - n ELSE n
        s == float_scale(a, 1)
        q == a \div s
        rem == a % s
        r == IF 2 * rem > s \/ (2 * rem = s /\ q % 2 = 1)
             THEN (q + 1) * s ELSE q * s
    IN  IF n < 0 THEN 0 - r ELSE r

\* One step of SUM: the accumulator plus the next value, rounded.
sum_step(acc, x) == float_round(acc + x)

\* SUM(col) of a column of whole values over the rows sel, in their order.
RECURSIVE SumInt(_, _, _)
SumInt(sel, col, k) ==
    IF k = 0 THEN 0 ELSE sum_step(SumInt(sel, col, k - 1), sel[k][col])

\* SUM(col) of a column of fractions (durations, prices per mile, waits)
\* over the rows sel; kept exact.
RECURSIVE SumRat(_, _, _)
SumRat(sel, col, k) ==
    IF k = 0 THEN Rat(0, 1) ELSE RAdd(SumRat(sel, col, k - 1), sel[k][col])

\* AVG(col) over a non-empty selection.
AvgInt(sel, col) == Rat(SumInt(sel, col, Len(sel)), Len(sel))

AvgRat(sel, col) ==
    LET t == SumRat(sel, col, Len(sel)) IN Rat(t.num, t.den * Len(sel))

\* float(x) if x else 0: a NULL or zero aggregate is reported as 0.
float_or_zero(x) == IF x = Null THEN Rat(0, 1)
                    ELSE IF x.num = 0 THEN Rat(0, 1) ELSE x

\* A statement over fhvhv raises when the store is unreadable or the table
\* lacks a column the statement names.
statement_fails(d, cols) == d.corrupt \/ ~(cols \subseteq d.columns)

\* Line 247: sqlite3.connect creates an empty file when there is none.
get_db_connection(d) ==
    IF d.exists THEN d
    ELSE [exists |-> TRUE, corrupt |-> FALSE, columns |-> {},
          rows |-> <<>>, indexes |-> {}]

\* after_selects for a handler that empties the table.
after_selects_deleting(d) == [d EXCEPT !.rows = <<>>]

\* Lines 495-597, 685-720, 790-825: every statement a handler executes is
\* a SELECT and the connection is closed without a commit: the store the
\* handler read is the store it leaves.
after_selects(d) == d

\* ascending with the order reversed (ORDER BY col DESC).
descending(keys) ==
    [i \in 1..Cardinality(keys) |->
        CHOOSE k \in keys : Cardinality({j \in keys : j > k}) = i - 1]

\* The sequence of the elements of the set keys in ascending order.
ascending(keys) ==
    [i \in 1..Cardinality(keys) |->
        CHOOSE k \in keys : Cardinality({j \in keys : j < k}) = i - 1]

\* Lines 470-475: the day-type condition; any other value filters nothing.
day_filter(day_type_arg, row) ==
    IF day_type_arg = "weekday" THEN row.day_type = "weekday"
    ELSE IF day_type_arg = "weekend" THEN row.day_type = "weekend"
    ELSE TRUE

\* Lines 478-489: the WHERE clause of every statement of analyze_route.
base_query(row, pickup_zone, dropoff_zone, day_type_arg) ==
    /\ row.PULocationID = pickup_zone
    /\ row.DOLocationID = dropoff_zone
    /\ day_filter(day_type_arg, row)
    /\ row.PULocationID # UnknownZone
    /\ row.DOLocationID # UnknownZone
    /\ row.price_per_mile.num > 0
    /\ row.total_fare_amount > 0
    /\ row.duration_minutes.num > 0
    /\ row.wait_time_minutes.num >= 0

\* The columns the statements of analyze_route name.
route_columns(day_type_arg) ==
    {"PULocationID", "DOLocationID", "price_per_mile", "total_fare_amount",
     "duration_minutes", "wait_time_minutes", "pickup_hour", "day_of_week",
     "pickup_month"}
    \cup (IF day_type_arg \in {"weekday", "weekend"} THEN {"day_type"} ELSE {})

\* Lines 461-462, 659-660, 765: request.args.get(name, type=int) is None
\* for a parameter that is missing or not an integer.
IsNone(arg) == arg = Null

\* not_zone as "pickup_zone is None": 0 is a zone id like any other.
not_zone_none_only(arg) == IsNone(arg)

\* Line 465: "not pickup_zone" holds of None and of 0.
not_zone(arg) == IsNone(arg) \/ Val(arg) = 0

\* Lines 543-551: CASE day_of_week ... END, NULL for any other value.
DayNames ==
    <<"Monday", "Tuesday", "Wednesday", "Thursday", "Friday", "Saturday",
      "Sunday">>

day_name(k) == IF k \in 0..6 THEN Some(DayNames[k + 1]) ELSE Null

\* Lines 569-582: CASE pickup_month ... END.
MonthLabels ==
    <<"Jan 2024", "Feb 2024", "Mar 2024", "Apr 2024", "May 2024", "Jun 2024",
      "Jul 2024", "Aug 2024", "Sep 2024", "Oct 2024", "Nov 2024", "Dec 2024">>

month_label(k) == IF k \in 1..12 THEN Some(MonthLabels[k]) ELSE Null

\* summary with avg_total_fare taken from the price per mile.
summary_fare_from_price(sel) ==
    [total_trips |-> Len(sel),
     avg_duration |-> float_or_zero(AvgRat(sel, "duration_minutes")),
     avg_price_mile |-> float_or_zero(AvgRat(sel, "price_per_mile")),
     avg_total_fare |-> float_or_zero(AvgRat(sel, "price_per_mile")),
     avg_wait_time |-> float_or_zero(AvgRat(sel, "wait_time_minutes"))]

\* Lines 509-520 and 600-606: the scalar summary of the selected rows.
summary(sel) ==
    [total_trips |-> Len(sel),
     avg_duration |-> float_or_zero(AvgRat(sel, "duration_minutes")),
     avg_price_mile |-> float_or_zero(AvgRat(sel, "price_per_mile")),
     avg_total_fare |-> float_or_zero(AvgInt(sel, "total_fare_amount")),
     avg_wait_time |-> float_or_zero(AvgRat(sel, "wait_time_minutes"))]

\* The aggregates of one group of a breakdown (lines 526-530).
breakdown_row(key, grp) ==
    [key |-> key,
     volume |-> Len(grp),
     price_per_mile |-> float_or_zero(AvgRat(grp, "price_per_mile")),
     total_fare_amount |-> float_or_zero(AvgInt(grp, "total_fare_amount")),
     avg_duration |-> float_or_zero(AvgRat(grp, "duration_minutes")),
     avg_wait_time |-> float_or_zero(AvgRat(grp, "wait_time_minutes"))]

\* group_keys when the statement has no GROUP BY: one result row per row.
group_keys_ungrouped(sel, col) ==
    [i \in 1..Len(sel) |-> sel[i][col]]

\* GROUP BY col ORDER BY col: the keys of the groups, ascending.
group_keys(sel, col) ==
    ascending({sel[i][col] : i \in 1..Len(sel)})

\* Lines 523-537, 540-563, 566-594: SELECT col, COUNT(*), AVG(..) ..
\* GROUP BY col ORDER BY col.
breakdown(sel, col) ==
    LET keys == group_keys(sel, col)
    IN  [i \in 1..Len(keys) |->
            breakdown_row(keys[i],
                          SelectSeq(sel, LAMBDA r : r[col] = keys[i]))]

\* Lines 607-617.
hourly(sel) ==
    LET b == breakdown(sel, "pickup_hour")
    IN  [i \in 1..Len(b) |->
            [hour |-> b[i].key, volume |-> b[i].volume,
             price_per_mile |-> b[i].price_per_mile,
             total_fare_amount |-> b[i].total_fare_amount,
             avg_duration |-> b[i].avg_duration,
             avg_wait_time |-> b[i].avg_wait_time]]

\* Lines 618-629.
daily(sel) ==
    LET b == breakdown(sel, "day_of_week")
    IN  [i \in 1..Len(b) |->
            [day_of_week |-> b[i].key, day |-> day_name(b[i].key),
             volume |-> b[i].volume,
             price_per_mile |-> b[i].price_per_mile,
             total_fare_amount |-> b[i].total_fare_amount,
             avg_duration |-> b[i].avg_duration,
             avg_wait_time |-> b[i].avg_wait_time]]

\* Lines 630-641.
monthly(sel) ==
    LET b == breakdown(sel, "pickup_month")
    IN  [i \in 1..Len(b) |->
            [month |-> b[i].key, month_name |-> month_label(b[i].key),
             volume |-> b[i].volume,
             price_per_mile |-> b[i].price_per_mile,
             total_fare_amount |-> b[i].total_fare_amount,
             avg_duration |-> b[i].avg_duration,
             avg_wait_time |-> b[i].avg_wait_time]]

BadRequest == [status |-> 400]

NotFound == [status |-> 404, total_trips |-> 0]

\* ServerError for an except branch that answers as if no trip matched.
ServerErrorAsNotFound == [status |-> 404, total_trips |-> 0]

ServerError == [status |-> 500]

\* route_found that reports a summary also when no row matches.
route_found_always(sel) == TRUE

\* Line 499: count_result[0] == 0 ends the request with 404.
route_found(sel) == Len(sel) # 0

\* Lines 458-649: the outcome of analyze_route on the store d: the
\* response, the store as the handler leaves it, the connections opened and
\* the statements executed.
analyze_route(d, pickup_zone, dropoff_zone, day_type_arg) ==
    IF not_zone(pickup_zone) \/ not_zone(dropoff_zone)
    THEN [response |-> BadRequest, db |-> d, connections |-> 0, queries |-> 0]
    ELSE IF statement_fails(get_db_connection(d), route_columns(day_type_arg))
    THEN [response |-> ServerError, db |-> get_db_connection(d),
          connections |-> 1, queries |-> 1]
    ELSE LET sel == SelectSeq(d.rows,
                       LAMBDA r : base_query(r, Val(pickup_zone),
                                             Val(dropoff_zone), day_type_arg))
         IN  IF ~route_found(sel)
             THEN [response |-> NotFound, db |-> after_selects(d),
                   connections |-> 1, queries |-> 1]
             ELSE [response |->
                      [status |-> 200,
                       summary |-> summary(sel),
                       hourly |-> hourly(sel),
                       daily |-> daily(sel),
                       monthly |-> monthly(sel)],
                   db |-> after_selects(d), connections |-> 1, queries |-> 5]

\* Lines 249-345: the default mapping names the zones 1..265; pack labels
\* any other id "Zone {id}".
zone_names == 1..265

zone_label(z) == [named |-> z \in zone_names, id |-> z]

\* Lines 687-694, 792-799: the result row of one group.
route_group(pu, do, grp) ==
    [PULocationID |-> pu,
     DOLocationID |-> do,
     volume |-> Len(grp),
     avg_total_fare |-> AvgInt(grp, "total_fare_amount"),
     total_revenue |-> SumInt(grp, "total_fare_amount", Len(grp)),
     avg_duration |-> AvgRat(grp, "duration_minutes"),
     avg_distance |-> AvgInt(grp, "trip_miles")]

\* GROUP BY PULocationID, DOLocationID over the selected rows.
route_groups(sel) ==
    {route_group(k[1], k[2],
                 SelectSeq(sel, LAMBDA r : r.PULocationID = k[1]
                                           /\ r.DOLocationID = k[2])) :
        k \in {<<sel[i].PULocationID, sel[i].DOLocationID>> :
                  i \in 1..Len(sel)}}

\* having without the threshold.
having_any(groups, min_volume) == groups

\* Lines 682, 787: HAVING COUNT(*) >= min_volume.
having(groups, min_volume) == {g \in groups : g.volume >= min_volume}

\* order_by_volume without the second term.
order_by_volume_only(g, h) == g.volume > h.volume

\* Lines 696, 801: ORDER BY volume DESC, total_revenue DESC.
order_by_volume(g, h) ==
    \/ g.volume > h.volume
    \/ g.volume = h.volume /\ g.total_revenue > h.total_revenue

\* order_by_avg_fare without DESC on the first term.
order_by_avg_fare_ascending(g, h) ==
    \/ RLt(g.avg_total_fare, h.avg_total_fare)
    \/ REq(g.avg_total_fare, h.avg_total_fare) /\ g.volume > h.volume

\* Line 711: ORDER BY avg_total_fare DESC, volume DESC.
order_by_avg_fare(g, h) ==
    \/ RLt(h.avg_total_fare, g.avg_total_fare)
    \/ REq(g.avg_total_fare, h.avg_total_fare) /\ g.volume > h.volume

\* Line 816: ORDER BY total_revenue DESC, volume DESC.
order_by_revenue(g, h) ==
    \/ g.total_revenue > h.total_revenue
    \/ g.total_revenue = h.total_revenue /\ g.volume > h.volume

\* Rows equal on both terms come in the order of their group keys.
tie_before(g, h, order) ==
    LET lt == \/ g.PULocationID < h.PULocationID
              \/ g.PULocationID = h.PULocationID
                 /\ g.DOLocationID < h.DOLocationID
        gt == \/ g.PULocationID > h.PULocationID
              \/ g.PULocationID = h.PULocationID
                 /\ g.DOLocationID > h.DOLocationID
    IN  IF order = "asc" THEN lt ELSE gt

\* The ORDER BY clause of the statement that ranks by the given key.
order_by(key, g, h) ==
    IF key = "volume" THEN order_by_volume(g, h)
    ELSE IF key = "avg_total_fare" THEN order_by_avg_fare(g, h)
    ELSE order_by_revenue(g, h)

\* The groups as the sequence ORDER BY gives.
sorted(groups, key, order) ==
    [i \in 1..Cardinality(groups) |->
        CHOOSE g \in groups :
            Cardinality({h \in groups :
                \/ order_by(key, h, g)
                \/ ~order_by(key, g, h) /\ tie_before(h, g, order)}) = i - 1]

\* limit without a bound.
limit_all(rows, n) == rows

\* LIMIT n.
limit(rows, n) == SubSeq(rows, 1, IF Len(rows) < n THEN Len(rows) ELSE n)

\* Lines 724-740, 829-845: the rows as returned.
pack(rows) ==
    [i \in 1..Len(rows) |->
        [pickup_zone |-> rows[i].PULocationID,
         dropoff_zone |-> rows[i].DOLocationID,
         pickup_name |-> zone_label(rows[i].PULocationID),
         dropoff_name |-> zone_label(rows[i].DOLocationID),
         volume |-> rows[i].volume,
         avg_total_fare |-> float_or_zero(rows[i].avg_total_fare),
         total_revenue |-> rows[i].total_revenue,
         avg_duration |-> float_or_zero(rows[i].avg_duration),
         avg_distance |-> float_or_zero(rows[i].avg_distance)]]

\* The columns the ranking statements name besides the time filter.
ranking_columns ==
    {"PULocationID", "DOLocationID", "total_fare_amount", "duration_minutes",
     "trip_miles"}

\* Lines 677-680, 782-785: the conditions shared by the ranking statements.
ranking_filter(row) ==
    /\ row.PULocationID # UnknownZone
    /\ row.DOLocationID # UnknownZone
    /\ row.total_fare_amount > 0
    /\ row.duration_minutes.num > 0

\* Line 662.
valid_day(day) == ~IsNone(day) /\ ~(Val(day) < 0) /\ ~(Val(day) > 6)

\* valid_hour without the upper bound.
valid_hour_no_upper(hour) == ~IsNone(hour) /\ ~(Val(hour) < 0)

\* Line 664.
valid_hour(hour) == ~IsNone(hour) /\ ~(Val(hour) < 0) /\ ~(Val(hour) > 23)

\* Line 766.
valid_month(month) == ~IsNone(month) /\ ~(Val(month) < 1) /\ ~(Val(month) > 12)

\* Lines 673-719 and 779-824: the two statements of a ranking handler over
\* the rows sel that match its time filter.
top_by_volume(sel, min_volume, order) ==
    pack(limit(sorted(having(route_groups(sel), min_volume),
                      "volume", order), TopLimit))

top_by_avg_fare(sel, min_volume, order) ==
    pack(limit(sorted(having(route_groups(sel), min_volume),
                      "avg_total_fare", order), TopLimit))

top_by_revenue(sel, min_volume, order) ==
    pack(limit(sorted(having(route_groups(sel), min_volume),
                      "total_revenue", order), TopLimit))

\* Lines 653-753.
high_impact_routes_combined(d, day, hour, order) ==
    IF ~valid_day(day) \/ ~valid_hour(hour)
    THEN [response |-> BadRequest, db |-> d, connections |-> 0, queries |-> 0]
    ELSE IF statement_fails(get_db_connection(d),
                ranking_columns \cup {"day_of_week", "pickup_hour"})
    THEN [response |-> ServerError, db |-> get_db_connection(d),
          connections |-> 1, queries |-> 1]
    ELSE LET sel == SelectSeq(d.rows,
                       LAMBDA r : /\ r.day_of_week = Val(day)
                                  /\ r.pickup_hour = Val(hour)
                                  /\ ranking_filter(r))
         IN  [response |->
                 [status |-> 200,
                  day |-> Val(day),
                  day_name |-> DayNames[Val(day) + 1],
                  hour |-> Val(hour),
                  top_by_volume |-> top_by_volume(sel, MinVolumeDayHour, order),
                  top_by_price |-> top_by_avg_fare(sel, MinVolumeDayHour, order)],
              db |-> after_selects(d), connections |-> 1, queries |-> 2]

\* Lines 769-773.
MonthNames ==
    <<"January", "February", "March", "April", "May", "June", "July",
      "August", "September", "October", "November", "December">>

\* Lines 757-856.
high_impact_routes_by_month(d, month, order) ==
    IF ~valid_month(month)
    THEN [response |-> BadRequest, db |-> d, connections |-> 0, queries |-> 0]
    ELSE IF statement_fails(get_db_connection(d),
                ranking_columns \cup {"pickup_month"})
    THEN [response |-> ServerError, db |-> get_db_connection(d),
          connections |-> 1, queries |-> 1]
    ELSE LET sel == SelectSeq(d.rows,
                       LAMBDA r : /\ r.pickup_month = Val(month)
                                  /\ ranking_filter(r))
         IN  [response |->
                 [status |-> 200,
                  month |-> Val(month),
                  month_name |-> MonthNames[Val(month)],
                  top_by_volume |-> top_by_volume(sel, MinVolumeMonth, order),
                  top_by_price |-> top_by_revenue(sel, MinVolumeMonth, order)],
              db |-> after_selects(d), connections |-> 1, queries |-> 2]

(***************************************************************************)
(* The stores the handlers are run on.  Their rows are what the loop body  *)
(* makes of a file of trips, so every store of IngestedStores is one that  *)
(* ingestion builds.                                                       *)
(***************************************************************************)
MaxStoreRows == 2

\* A trip of 5 miles and 10 minutes whose only fare component is fare.
Trip(pu, do, ts, fare) ==
    [BaseRecord EXCEPT !.PULocationID = Some(pu), !.DOLocationID = Some(do),
                       !.pickup_datetime = ts,
                       !.base_passenger_fare = Some(fare),
                       !.tolls = Null, !.bcf = Null, !.sales_tax = Null,
                       !.congestion_surcharge = Null, !.airport_fee = Null]

Monday8 == Ts(2024, 1, 1, 8)

Saturday23 == Ts(2024, 3, 2, 23)

\* What ingestion stores of a file of the given trips.
Ingest(records) == rows_of(process_file(File(RawColumns, records)).df_clean)

\* Section 7 of the specification: three trips between zones 10 and 20, on
\* a Monday at hour 8, with fares 20, 25 and 23.
ExampleTrips ==
    <<Trip(10, 20, Monday8, 20), Trip(10, 20, Monday8, 25),
      Trip(10, 20, Monday8, 23)>>

\* The trips of the small stores: two on route 10 -> 20 on different days,
\* hours and months, a third on the same route at the hour of the first,
\* one on another route and one from the reserved zone.
SmallTrips ==
    {BaseRecord,
     Trip(10, 20, Saturday23, 46),
     Trip(10, 20, Ts(2024, 1, 2, 8), 20),
     SecondRecord,
     Trip(UnknownZone, 20, Monday8, 30)}

\* n trips of one route with the fares f + 2, f, .., f, f - 2 (n >= 2).
RouteTrips(pu, do, ts, n, f) ==
    [j \in 1..n |->
        Trip(pu, do, ts, IF j = 1 THEN f + 2 ELSE IF j = n THEN f - 2 ELSE f)]

RECURSIVE Flatten(_)
Flatten(seqs) ==
    IF seqs = <<>> THEN <<>> ELSE Head(seqs) \o Flatten(Tail(seqs))

\* Routes on a Monday of January at hour 8, as <<pickup, dropoff, trips,
\* fare>>: twelve with 20 trips or more, among them two equal in volume and
\* revenue (1->2, 1->3), one equal to them in volume with more revenue
\* (2->1), one equal to it in revenue with fewer trips (3->1) and one equal
\* to it in average fare with fewer trips (4->1); one of 19 trips, one of 5,
\* one of 4, and two of 25 with the reserved zone at either end.
BusyRoutes ==
    <<<<1, 2, 22, 30>>, <<1, 3, 22, 30>>, <<2, 1, 22, 40>>, <<3, 1, 20, 44>>,
      <<4, 1, 21, 40>>, <<5, 1, 24, 20>>, <<6, 1, 23, 25>>, <<7, 1, 20, 50>>,
      <<8, 1, 25, 10>>, <<9, 1, 26, 12>>, <<10, 20, 27, 15>>,
      <<11, 1, 20, 100>>, <<12, 1, 19, 30>>, <<13, 1, 5, 200>>,
      <<14, 1, 4, 240>>, <<UnknownZone, 1, 25, 50>>,
      <<1, UnknownZone, 25, 50>>>>

BusyTrips ==
    Flatten([k \in 1..Len(BusyRoutes) |->
                RouteTrips(BusyRoutes[k][1], BusyRoutes[k][2], Monday8,
                           BusyRoutes[k][3], BusyRoutes[k][4])])
    \o RouteTrips(1, 2, Saturday23, 3, 30)

Reverse(seq) == [i \in 1..Len(seq) |-> seq[Len(seq) + 1 - i]]

\* The elements at the odd positions, then those at the even positions.
OddsThenEvens(seq) ==
    LET n == Len(seq)
        odd == (n + 1) \div 2
    IN  [i \in 1..n |-> IF i <= odd THEN seq[2 * i - 1]
                        ELSE seq[2 * (i - odd)]]

\* Lines 93-230: a store after a successful run that stored the given rows.
StoreOf(rows) ==
    [exists |-> TRUE, corrupt |-> FALSE, columns |-> columns_to_keep,
     rows |-> rows, indexes |-> AllIndexes]

\* The busy store and the same rows inserted in two other orders.
BusyStores ==
    {StoreOf(Ingest(BusyTrips)),
     StoreOf(Ingest(Reverse(BusyTrips))),
     StoreOf(Ingest(OddsThenEvens(BusyTrips)))}

\* Ten trips of one route: one of fare 1 and nine of fare 249, the small
\* fare first or last.  Their sum, 2242, needs rounding on the way when the
\* small fare comes last.
SmallFareFirst(pu, do) ==
    <<Trip(pu, do, Monday8, 1)>>
    \o [j \in 1..9 |-> Trip(pu, do, Monday8, 249)]

SmallFareLast(pu, do) ==
    [j \in 1..9 |-> Trip(pu, do, Monday8, 249)]
    \o <<Trip(pu, do, Monday8, 1)>>

\* Two stores of the same twenty trips on the routes 10 -> 20 and 1 -> 2,
\* inserted in different orders.
RoundingStores ==
    {StoreOf(Ingest(SmallFareFirst(10, 20) \o SmallFareLast(1, 2))),
     StoreOf(Ingest(SmallFareLast(10, 20) \o SmallFareFirst(1, 2)))}

IngestedStores ==
    {StoreOf(Ingest(recs)) : recs \in SeqsUpTo(SmallTrips, MaxStoreRows)}
    \cup {StoreOf(Ingest(ExampleTrips))}
    \cup BusyStores
    \cup RoundingStores

\* A store reused from an earlier version of the program (lines 56-63 look
\* at one column only): rows that fail a condition of the queries.
LegacyRow == Ingest(<<BaseRecord>>)[1]

LegacyRows ==
    <<LegacyRow,
      [LegacyRow EXCEPT !.total_fare_amount = 0,
                        !.price_per_mile = Rat(0, 5)],
      [LegacyRow EXCEPT !.duration_minutes = Rat(0, 60)],
      [LegacyRow EXCEPT !.wait_time_minutes = Rat(-60, 60)],
      [LegacyRow EXCEPT !.DOLocationID = UnknownZone]>>

\* A reused store with five trips of one route on a Monday at 8, one of
\* them with a negative wait and one with a price per mile of zero.
LegacyBusyRows ==
    <<LegacyRow, LegacyRow,
      [LegacyRow EXCEPT !.wait_time_minutes = Rat(-60, 60)],
      [LegacyRow EXCEPT !.price_per_mile = Rat(0, 5)],
      LegacyRow>>

\* The stores a request may find: those of ingestion, a reused one, one
\* without the wait column, none, an unreadable file, and the empty file
\* a connection leaves where there was none.
QueryStores ==
    IngestedStores
    \cup {StoreOf(LegacyRows),
          StoreOf(LegacyBusyRows),
          [exists |-> TRUE, corrupt |-> FALSE,
           columns |-> columns_to_keep \ {"wait_time_minutes"},
           rows |-> <<Project(LegacyRow,
                              columns_to_keep \ {"wait_time_minutes"})>>,
           indexes |-> AllIndexes],
          AbsentDb,
          [AbsentDb EXCEPT !.exists = TRUE, !.corrupt = TRUE],
          get_db_connection(AbsentDb)}

(***************************************************************************)
(* SpecQuery: the three handlers serving requests, one after the other, on *)
(* a store drawn from QueryStores.                                         *)
(***************************************************************************)
\* Values of a zone parameter: missing, 0, zones and the reserved zone.
PickupArgs == {Null, Some(0), Some(1), Some(10), Some(UnknownZone)}

DropoffArgs == {Null, Some(0), Some(2), Some(20), Some(UnknownZone)}

\* Values of day_type: the three of the interface and one that is none of
\* them (line 463 takes any string).
DayTypeArgs == {"all", "weekday", "weekend", "holiday"}

DayArgs == {Null, Some(-1), Some(0), Some(5), Some(7)}

HourArgs == {Null, Some(-1), Some(8), Some(23), Some(24)}

MonthArgs == {Null, Some(0), Some(1), Some(3), Some(12), Some(13)}

Requests ==
    {[op |-> "analyze_route", pickup |-> p, dropoff |-> d, day_type |-> t] :
        p \in PickupArgs, d \in DropoffArgs, t \in DayTypeArgs}
    \cup {[op |-> "high_impact_routes_combined", day |-> d, hour |-> h] :
            d \in DayArgs, h \in HourArgs}
    \cup {[op |-> "high_impact_routes_by_month", month |-> m] :
            m \in MonthArgs}

TieOrders == {"asc", "desc"}

\* The handler of the route the request names.
handle(d, order, req) ==
    IF req.op = "analyze_route"
    THEN analyze_route(d, req.pickup, req.dropoff, req.day_type)
    ELSE IF req.op = "high_impact_routes_combined"
    THEN high_impact_routes_combined(d, req.day, req.hour, order)
    ELSE high_impact_routes_by_month(d, req.month, order)

\* For each store and engine, what each request gives.
QueryOutcomes ==
    {[store |-> d, order |-> o,
      outs |-> {[request |-> r, out |-> handle(d, o, r)] : r \in Requests}] :
        d \in QueryStores, o \in TieOrders}

\* The requests of one handler on the store as it is, with their outcomes.
outcomes_here(op) ==
    UNION {{ro \in e.outs : ro.request.op = op} :
              e \in {x \in QueryOutcomes : x.store = db /\ x.order = tie_order}}

\* One request handled from its arrival to the response.
serve(ro) ==
    /\ pc = "serve"
    /\ request' = ro.request
    /\ response' = ro.out.response
    /\ db' = ro.out.db
    /\ connections' = ro.out.connections
    /\ queries' = ro.out.queries
    /\ UNCHANGED <<pc, parquet_files, file_idx, total_records, records_added,
                   result, df, df_clean, pre, store_check, appended,
                   batch_status, tie_order, threads, cursors>>

\* Lines 457-649: GET /api/route-analysis.
AnalyzeRoute == \E ro \in outcomes_here("analyze_route") : serve(ro)

\* Lines 652-753: GET /api/high-impact-routes.
HighImpactRoutesCombined ==
    \E ro \in outcomes_here("high_impact_routes_combined") : serve(ro)

\* Lines 756-856: GET /api/high-impact-routes-by-month.
HighImpactRoutesByMonth ==
    \E ro \in outcomes_here("high_impact_routes_by_month") : serve(ro)

InitQuery ==
    /\ db \in QueryStores
    /\ pc = "serve"
    /\ parquet_files = <<>>
    /\ file_idx = 0
    /\ total_records = 0
    /\ records_added = 0
    /\ result = "True"
    /\ df = UnreadableFile
    /\ df_clean = NoFrame
    /\ pre = AbsentDb
    /\ store_check = "none"
    /\ appended = <<>>
    /\ batch_status = "none"
    /\ request = NoRequest
    /\ response = NoResponse
    /\ connections = 0
    /\ queries = 0
    /\ tie_order \in TieOrders
    /\ NoThreads

NextQuery ==
    AnalyzeRoute \/ HighImpactRoutesCombined \/ HighImpactRoutesByMonth

SpecQuery == InitQuery /\ [][NextQuery]_vars

(***************************************************************************)
(* SpecConcurrent: the handlers run by the threads of the server at the    *)
(* same time, one statement at a time, on a populated store.  A step is    *)
(* the arrival of a request (validation and connection), cursor.execute of *)
(* the next statement, the fetch of its result, or the response.           *)
(***************************************************************************)
\* Lines 491-492, 670-671, 775-776: conn = get_db_connection() and
\* conn.cursor() give every call of a handler a cursor of its own.
cursor_shared(t) == "t1"

cursor_of(t) == t

\* The arguments fail the validation of the handler (lines 465, 662, 766).
invalid_args(req) ==
    IF req.op = "analyze_route"
    THEN not_zone(req.pickup) \/ not_zone(req.dropoff)
    ELSE IF req.op = "high_impact_routes_combined"
    THEN ~valid_day(req.day) \/ ~valid_hour(req.hour)
    ELSE ~valid_month(req.month)

\* The statements a handler executes, in order.
statements(req) ==
    IF req.op = "analyze_route"
    THEN <<"count", "summary", "hourly", "daily", "monthly">>
    ELSE <<"volume", "price">>

\* The columns the statements of the handler name.
statement_columns(req) ==
    IF req.op = "analyze_route" THEN route_columns(req.day_type)
    ELSE IF req.op = "high_impact_routes_combined"
    THEN ranking_columns \cup {"day_of_week", "pickup_hour"}
    ELSE ranking_columns \cup {"pickup_month"}

\* The rows the WHERE clause of the handler's statements selects.
selection(d, req) ==
    IF req.op = "analyze_route"
    THEN SelectSeq(d.rows,
             LAMBDA r : base_query(r, Val(req.pickup), Val(req.dropoff),
                                   req.day_type))
    ELSE IF req.op = "high_impact_routes_combined"
    THEN SelectSeq(d.rows,
             LAMBDA r : /\ r.day_of_week = Val(req.day)
                        /\ r.pickup_hour = Val(req.hour)
                        /\ ranking_filter(r))
    ELSE SelectSeq(d.rows,
             LAMBDA r : r.pickup_month = Val(req.month) /\ ranking_filter(r))

\* What cursor.execute of one statement leaves on the cursor.
statement_result(d, order, req, name) ==
    IF statement_fails(d, statement_columns(req))
    THEN [kind |-> "error", val |-> 0]
    ELSE LET sel == selection(d, req)
             min_volume == IF req.op = "high_impact_routes_combined"
                           THEN MinVolumeDayHour ELSE MinVolumeMonth
         IN  [kind |-> name,
              val |-> CASE name = "count" -> Len(sel)
                        [] name = "summary" -> summary(sel)
                        [] name = "hourly" -> hourly(sel)
                        [] name = "daily" -> daily(sel)
                        [] name = "monthly" -> monthly(sel)
                        [] name = "volume" ->
                              top_by_volume(sel, min_volume, order)
                        [] name = "price" ->
                              IF req.op = "high_impact_routes_combined"
                              THEN top_by_avg_fare(sel, min_volume, order)
                              ELSE top_by_revenue(sel, min_volume, order)]

\* The stores the threads query: the example, a small store, a store with
\* rankings, and a reused one without the wait column.
ConcurrentStores ==
    {StoreOf(Ingest(ExampleTrips)),
     StoreOf(Ingest(<<BaseRecord, Trip(10, 20, Saturday23, 46)>>)),
     StoreOf(Ingest(SmallFareFirst(10, 20) \o SmallFareLast(1, 2))),
     [exists |-> TRUE, corrupt |-> FALSE,
      columns |-> columns_to_keep \ {"wait_time_minutes"},
      rows |-> <<Project(LegacyRow,
                         columns_to_keep \ {"wait_time_minutes"})>>,
      indexes |-> AllIndexes]}

\* The requests the threads handle.
ConcurrentRequests ==
    {[op |-> "analyze_route", pickup |-> Some(10), dropoff |-> Some(20),
      day_type |-> "all"],
     [op |-> "analyze_route", pickup |-> Some(10), dropoff |-> Some(20),
      day_type |-> "weekend"],
     [op |-> "analyze_route", pickup |-> Some(1), dropoff |-> Some(2),
      day_type |-> "all"],
     [op |-> "analyze_route", pickup |-> Some(0), dropoff |-> Some(2),
      day_type |-> "all"],
     [op |-> "high_impact_routes_combined", day |-> Some(0),
      hour |-> Some(8)],
     [op |-> "high_impact_routes_combined", day |-> Some(5),
      hour |-> Some(23)],
     [op |-> "high_impact_routes_by_month", month |-> Some(13)]}

\* For each store, engine and request, what each statement leaves on the
\* cursor.
StatementResults ==
    {[store |-> d, order |-> o, request |-> r,
      results |-> [k \in 1..Len(statements(r)) |->
                      statement_result(d, o, r, statements(r)[k])]] :
        d \in ConcurrentStores, o \in TieOrders,
        r \in {q \in ConcurrentRequests : ~invalid_args(q)}}

\* The result of the k-th statement of the request on the store as it is.
result_here(req, k) ==
    LET e == CHOOSE x \in StatementResults :
                 x.store = db /\ x.order = tie_order /\ x.request = req
    IN  e.results[k]

\* A request arrives at an idle thread: the arguments are validated, then
\* the connection and its cursor are opened.
Receive(t) ==
    /\ pc = "threads"
    /\ threads[t].pc \in {"idle", "done"}
    /\ \E req \in ConcurrentRequests :
          /\ threads' = [threads EXCEPT ![t] =
                 IF invalid_args(req)
                 THEN [pc |-> "done", request |-> req, k |-> 0,
                       fetched |-> <<>>, response |-> BadRequest]
                 ELSE [pc |-> "execute", request |-> req, k |-> 1,
                       fetched |-> <<>>, response |-> NoResponse]]
          /\ db' = IF invalid_args(req) THEN db ELSE get_db_connection(db)
    /\ UNCHANGED <<pc, parquet_files, file_idx, total_records, records_added,
                   result, df, df_clean, pre, store_check, appended,
                   batch_status, request, response, connections, queries,
                   tie_order, cursors>>

\* cursor.execute of the next statement of the handler.
Execute(t) ==
    /\ pc = "threads"
    /\ threads[t].pc = "execute"
    /\ cursors' = [cursors EXCEPT ![cursor_of(t)] =
                      result_here(threads[t].request, threads[t].k)]
    /\ threads' = [threads EXCEPT ![t].pc = "fetch"]
    /\ UNCHANGED <<db, pc, parquet_files, file_idx, total_records,
                   records_added, result, df, df_clean, pre, store_check,
                   appended, batch_status, request, response, connections,
                   queries, tie_order>>

\* The handler has every result it asked for.
all_fetched(th, got) ==
    \/ Len(got) = Len(statements(th.request))
    \/ got[Len(got)].kind = "error"
    \/ got[Len(got)].kind # statements(th.request)[Len(got)]
    \/ th.request.op = "analyze_route" /\ got[1].val = 0

\* cursor.fetchone or fetchall of the statement just executed; an exception
\* or a count of 0 ends the statements of the handler.
Fetch(t) ==
    /\ pc = "threads"
    /\ threads[t].pc = "fetch"
    /\ LET got == Append(threads[t].fetched, cursors[cursor_of(t)])
       IN  threads' = [threads EXCEPT
               ![t].fetched = got,
               ![t].k = threads[t].k + 1,
               ![t].pc = IF all_fetched(threads[t], got)
                         THEN "respond" ELSE "execute"]
    /\ UNCHANGED <<db, pc, parquet_files, file_idx, total_records,
                   records_added, result, df, df_clean, pre, store_check,
                   appended, batch_status, request, response, connections,
                   queries, tie_order, cursors>>

\* Lines 499-504, 599-649, 742-753, 846-856: the response built from the
\* results fetched.
build_response(req, got) ==
    IF \E k \in 1..Len(got) : got[k].kind # statements(req)[k]
    THEN ServerError
    ELSE IF req.op = "analyze_route"
    THEN (IF got[1].val = 0 THEN NotFound
          ELSE [status |-> 200,
                summary |-> got[2].val,
                hourly |-> got[3].val,
                daily |-> got[4].val,
                monthly |-> got[5].val])
    ELSE IF req.op = "high_impact_routes_combined"
    THEN [status |-> 200,
          day |-> Val(req.day),
          day_name |-> DayNames[Val(req.day) + 1],
          hour |-> Val(req.hour),
          top_by_volume |-> got[1].val,
          top_by_price |-> got[2].val]
    ELSE [status |-> 200,
          month |-> Val(req.month),
          month_name |-> MonthNames[Val(req.month)],
          top_by_volume |-> got[1].val,
          top_by_price |-> got[2].val]

\* conn.close() and return jsonify(..).
Respond(t) ==
    /\ pc = "threads"
    /\ threads[t].pc = "respond"
    /\ threads' = [threads EXCEPT
           ![t].pc = "done",
           ![t].response = build_response(threads[t].request,
                                          threads[t].fetched)]
    /\ UNCHANGED <<db, pc, parquet_files, file_idx, total_records,
                   records_added, result, df, df_clean, pre, store_check,
                   appended, batch_status, request, response, connections,
                   queries, tie_order, cursors>>

InitConcurrent ==
    /\ db \in ConcurrentStores
    /\ pc = "threads"
    /\ parquet_files = <<>>
    /\ file_idx = 0
    /\ total_records = 0
    /\ records_added = 0
    /\ result = "True"
    /\ df = UnreadableFile
    /\ df_clean = NoFrame
    /\ pre = AbsentDb
    /\ store_check = "none"
    /\ appended = <<>>
    /\ batch_status = "none"
    /\ request = NoRequest
    /\ response = NoResponse
    /\ connections = 0
    /\ queries = 0
    /\ tie_order \in TieOrders
    /\ NoThreads

NextConcurrent ==
    \E t \in Threads : Receive(t) \/ Execute(t) \/ Fetch(t) \/ Respond(t)

SpecConcurrent == InitConcurrent /\ [][NextConcurrent]_vars

(***************************************************************************)
(* SpecMain: the program run as a script (lines 2730-2751): one call of    *)
(* init_database, then app.run and the handlers if it returned True, the   *)
(* failure message and the end of the process otherwise.                   *)
(***************************************************************************)
\* The requests the server receives once it runs.
MainRequests ==
    {[op |-> "analyze_route", pickup |-> Some(10), dropoff |-> Some(20),
      day_type |-> "all"],
     [op |-> "analyze_route", pickup |-> Some(1), dropoff |-> Some(2),
      day_type |-> "weekend"],
     [op |-> "high_impact_routes_combined", day |-> Some(0),
      hour |-> Some(8)],
     [op |-> "high_impact_routes_by_month", month |-> Some(1)],
     [op |-> "high_impact_routes_by_month", month |-> Some(13)]}

\* One request handled, from its arrival to the response, on the store as
\* it is.
answer(req) ==
    \E out \in {handle(db, tie_order, req)} :
        /\ request' = req
        /\ response' = out.response
        /\ db' = out.db
        /\ connections' = out.connections
        /\ queries' = out.queries
        /\ UNCHANGED <<pc, parquet_files, file_idx, total_records,
                       records_added, result, df, df_clean, pre, store_check,
                       appended, batch_status, tie_order, threads, cursors>>

\* may_serve for a script that starts the server whatever the result.
may_serve_always(res) == TRUE

\* Line 2735: if init_database():
may_serve(res) == res = "True"

\* Line 2735: the one call of init_database of the script.
InitDatabase == pc = "idle" /\ CheckExistingStore

\* Lines 2735-2747: init_database returned a true value: app.run.
StartServer ==
    /\ pc = "done"
    /\ may_serve(result)
    /\ pc' = "serve"
    /\ UNCHANGED <<db, parquet_files, file_idx, total_records, records_added,
                   result, df, df_clean, pre, store_check, appended,
                   batch_status>>
    /\ UNCHANGED qvars

\* Lines 2748-2751: it returned False: the messages, and the script ends.
ExitFailed ==
    /\ pc = "done"
    /\ ~may_serve(result)
    /\ pc' = "exit"
    /\ UNCHANGED <<db, parquet_files, file_idx, total_records, records_added,
                   result, df, df_clean, pre, store_check, appended,
                   batch_status>>
    /\ UNCHANGED qvars

\* The server handles a request.
ServeRequest == pc = "serve" /\ \E req \in MainRequests : answer(req)

NextMain ==
    \/ InitDatabase
    \/ DiscoverFiles
    \/ LoadBatch
    \/ CreateIndexes
    \/ StartServer
    \/ ExitFailed
    \/ ServeRequest

SpecMain == Init /\ [][NextMain]_vars

(***************************************************************************)
(* SpecApp: the module loaded by a server of its own (the Flask app object *)
(* without the script of lines 2730-2751): the handlers answer whenever a  *)
(* request arrives, before, between and after the calls of init_database.  *)
(***************************************************************************)
\* A request handled while no call of init_database is under way.
ServeAnytime ==
    /\ pc \in {"idle", "done"}
    /\ \E req \in MainRequests : answer(req)

NextApp ==
    \/ CheckExistingStore
    \/ DiscoverFiles
    \/ LoadBatch
    \/ CreateIndexes
    \/ ServeAnytime

SpecApp == Init /\ [][NextApp]_vars

(***************************************************************************)
(* Claims.  The predicates below restate the specification's conditions in *)
(* its own terms (plain integer arithmetic on the raw record), apart from  *)
(* the operators of the pipeline above.                                    *)
(***************************************************************************)
\* The four outlier bounds on a persisted row: 0 < price_per_mile < 50,
\* 0 < total_fare < 500, 1 < duration_minutes < 300, 0 < trip_miles < 100.
SatisfiesOutlierBounds(row) ==
    /\ row.price_per_mile.den > 0
    /\ 0 < row.price_per_mile.num
    /\ row.price_per_mile.num < 50 * row.price_per_mile.den
    /\ 0 < row.total_fare_amount /\ row.total_fare_amount < 500
    /\ row.duration_minutes.den > 0
    /\ 1 * row.duration_minutes.den < row.duration_minutes.num
    /\ row.duration_minutes.num < 300 * row.duration_minutes.den
    /\ 0 < row.trip_miles /\ row.trip_miles < 100

\* C1: in every state of every run, each row of a store that has the
\* total_fare_amount column satisfies the four outlier bounds.
C1_StoredRowsWithinBounds ==
    SentinelColumn \in db.columns =>
        \A k \in 1..Len(db.rows) : SatisfiesOutlierBounds(db.rows[k])

\* C1 witness: a run has stored rows and its last file, read and cleaned
\* without error, lost every record to the outlier filter.
C1_Witness ==
    /\ pc = "done" /\ result = "True"
    /\ batch_status = "ok" /\ records_added = 0
    /\ Len(appended) >= 2

\* The sum of the fare components of a raw record, a missing one as 0.
RECURSIVE FareSum(_, _)
FareSum(rec, k) ==
    IF k = 0 THEN 0
    ELSE FareSum(rec, k - 1)
         + (IF rec[FareColumns[k]] = <<>> THEN 0 ELSE rec[FareColumns[k]][1])

\* The conditions of sections 3 and 4.1 for a raw record to be persisted.
ShouldBePersisted(rec) ==
    /\ rec.pickup_datetime.kind # "null"
    /\ rec.dropoff_datetime.kind # "null"
    /\ rec.PULocationID # <<>>
    /\ rec.DOLocationID # <<>>
    /\ rec.trip_miles # <<>> /\ rec.trip_time # <<>>
    /\ rec.pickup_datetime.kind = "ts"
    /\ rec.pickup_datetime.year = 2024
    /\ LET miles == rec.trip_miles[1]
           secs == rec.trip_time[1]
           fare == FareSum(rec, 6)
       IN  /\ miles > 0 /\ secs > 0
           /\ 0 < fare /\ fare < 50 * miles
           /\ fare < 500
           /\ 60 < secs /\ secs < 300 * 60
           /\ miles < 100

BatchDone == pc # "load"

\* C2: after a file went through the loop body without an exception, the
\* records written to the store are exactly those that satisfy the
\* conditions, in the file's order; the others are dropped.
C2_PersistedIffValid ==
    (BatchDone /\ batch_status \in {"ok", "empty"}) =>
        /\ \A i \in 1..Len(df.records) :
              (\E k \in 1..Len(df_clean) : df_clean[k].index = i)
                  <=> ShouldBePersisted(df.records[i])
        /\ \A k, m \in 1..Len(df_clean) :
              k < m => df_clean[k].index < df_clean[m].index
        /\ db.rows = rows_of(df_clean)

\* C2 witness: a file of two records, one written and one dropped.
C2_Witness ==
    /\ BatchDone /\ batch_status = "ok"
    /\ Len(df.records) = 2 /\ Len(db.rows) = 1

\* C3: each row written has as total_fare_amount the sum of the six
\* components of its raw record, a missing component as 0.
C3_TotalFareIsSum ==
    BatchDone =>
        /\ Len(db.rows) = Len(df_clean)
        /\ \A k \in 1..Len(df_clean) :
              db.rows[k].total_fare_amount
                  = FareSum(df.records[df_clean[k].index], 6)

\* C3 witness: a written row whose record lacks two components (and the
\* base fare is present).
C3_Witness ==
    /\ BatchDone /\ Len(db.rows) = 1 /\ Len(df.records) = 1
    /\ df.records[1].tolls = <<>> /\ df.records[1].airport_fee = <<>>
    /\ df.records[1].base_passenger_fare # <<>>
    /\ df.records[1].bcf # <<>>

\* A fraction equals the whole number of seconds s taken as minutes.
IsSeconds(x, s) == x.den > 0 /\ x.num * 60 = s * x.den

ClampSeconds(s) == IF s < 0 THEN 0 ELSE IF s > 60 * 60 THEN 60 * 60 ELSE s

BothPresent(file, rec) ==
    /\ {"request_datetime", "on_scene_datetime"} \subseteq file.columns
    /\ rec.request_datetime.kind # "null"
    /\ rec.on_scene_datetime.kind # "null"

Parseable(rec) ==
    rec.request_datetime.kind # "bad" /\ rec.on_scene_datetime.kind # "bad"

\* The wait of section 4.1, step 8, from the record alone.
WaitSecondsOf(file, rec) ==
    IF BothPresent(file, rec) /\ Parseable(rec)
    THEN ClampSeconds(rec.on_scene_datetime.secs - rec.request_datetime.secs)
    ELSE 0

\* C4 as claimed: every written row has the wait of its own record (the
\* clamped difference when both timestamps are present and parseable, 0
\* otherwise).
C4_Original ==
    BatchDone =>
        \A k \in 1..Len(df_clean) :
            IsSeconds(df_clean[k].row.wait_time_minutes,
                      WaitSecondsOf(df, df.records[df_clean[k].index]))

\* A record that reaches the computation of the wait: it passed the
\* presence, positivity and year filters.
ReachesWait(rec) ==
    /\ rec.pickup_datetime.kind = "ts" /\ rec.pickup_datetime.year = 2024
    /\ rec.dropoff_datetime.kind # "null"
    /\ rec.PULocationID # <<>> /\ rec.DOLocationID # <<>>
    /\ rec.trip_miles # <<>> /\ rec.trip_time # <<>>
    /\ rec.trip_miles[1] > 0 /\ rec.trip_time[1] > 0

\* C4 as amended: a written row has the clamped difference when the file
\* has both columns, both of its timestamps are present and no request or
\* on-scene value of any record of the file that reaches the computation is
\* unparseable; otherwise 0.  The wait is within [0, 60], and an
\* unparseable request or on-scene value never makes the file fail.
C4_WaitClampedOrZero ==
    BatchDone =>
        /\ \A k \in 1..Len(df_clean) :
              LET rec == df.records[df_clean[k].index]
                  w == df_clean[k].row.wait_time_minutes
                  all_parse ==
                      \A i \in 1..Len(df.records) :
                          ReachesWait(df.records[i]) => Parseable(df.records[i])
              IN  /\ IsSeconds(w, IF all_parse THEN WaitSecondsOf(df, rec) ELSE 0)
                  /\ w.den > 0 /\ 0 <= w.num /\ w.num <= 60 * w.den
                  /\ db.rows[k].wait_time_minutes = w
        /\ (/\ df.readable
            /\ (RawColumns \ WaitColumns) \subseteq df.columns
            /\ \A i \in 1..Len(df.records) :
                  df.records[i].pickup_datetime.kind # "bad")
           => batch_status # "error"

\* C4 witness: two rows written from one file; the first record has both
\* timestamps, five minutes apart, the second an unparseable request time,
\* and both rows have a wait of 0.
C4_Witness ==
    /\ BatchDone /\ Len(db.rows) = 2
    /\ df.records[1] = BaseRecord
    /\ df.records[2].request_datetime.kind = "bad"
    /\ db.rows[1].wait_time_minutes.num = 0

\* The store found at the start is valid in the specification's sense: it
\* has every expected column and at least one row.
PreValid ==
    /\ pre.exists /\ ~pre.corrupt
    /\ columns_to_keep \subseteq pre.columns
    /\ Len(pre.rows) >= 1

\* C5: a call that found a valid store returned True and left the store as
\* it found it, with nothing appended.
C5_RerunIsNoOp ==
    (pc = "done" /\ PreValid) =>
        /\ result = "True"
        /\ db = pre
        /\ appended = <<>>

\* C5 witness: a call returned over a valid store of three rows, which only
\* an earlier ingestion of this behaviour can have written.
C5_Witness ==
    /\ pc = "done" /\ PreValid /\ store_check = "valid"
    /\ Len(db.rows) = 3

\* The call returned True without reading any file: the store was reused.
Reused == pc = "done" /\ result = "True" /\ file_idx = 0

\* C6 as claimed: a store is reused only if it has every expected column
\* and at least one row.
C6_Original == Reused => PreValid

\* C6 as amended: a store is reused only if it exists, is readable, has the
\* total_fare_amount column and at least one row; it is then left as found.
C6_ReusedOnlyIfSentinelAndRows ==
    Reused =>
        /\ pre.exists /\ ~pre.corrupt
        /\ SentinelColumn \in pre.columns
        /\ Len(pre.rows) >= 1
        /\ db = pre

\* C6 witness: a reused store that lacks an expected column.
C6_Witness ==
    /\ Reused
    /\ "wait_time_minutes" \notin pre.columns
    /\ Len(pre.rows) >= 1

\* The store found at the start is missing, unreadable, empty or lacks an
\* expected column.
PreUnusable ==
    \/ ~pre.exists
    \/ pre.corrupt
    \/ Len(pre.rows) = 0
    \/ ~(columns_to_keep \subseteq pre.columns)

\* C7 as claimed: such a store, when it exists, is deleted before the run
\* goes on, and after a successful run the store has the current schema and
\* holds exactly the rows of this run.
C7_Original ==
    (pc # "idle" /\ PreUnusable) =>
        /\ (pc = "discover" /\ pre.exists) => ~db.exists
        /\ (pc = "done" /\ result = "True") =>
              /\ db.columns = columns_to_keep
              /\ db.rows = appended

\* The store the check of lines 48-70 deletes: unreadable, or without the
\* total_fare_amount column.
PreDeleted == pre.exists /\ (pre.corrupt \/ SentinelColumn \notin pre.columns)

\* C7 as amended: a store that is unreadable or lacks total_fare_amount is
\* deleted; one that is missing, or has the column and no rows, is left as
\* found (not deleted); a successful run over any of them ends with every
\* expected column and exactly the rows of this run.
C7_RebuiltOrKeptEmpty ==
    (pc # "idle" /\ (~pre.exists \/ PreDeleted \/ Len(pre.rows) = 0)) =>
        /\ pc = "discover" => db = IF PreDeleted THEN AbsentDb ELSE pre
        /\ (pc = "done" /\ result = "True") =>
              /\ columns_to_keep \subseteq db.columns
              /\ Len(appended) >= 1
              /\ db.rows = appended

\* C7 witness: a successful run over a store that had rows but not the
\* total_fare_amount column.
C7_Witness ==
    /\ pc = "done" /\ result = "True"
    /\ Len(pre.rows) >= 1 /\ SentinelColumn \notin pre.columns
    /\ Len(db.rows) >= 1

\* Discovery ran and found no matching file.
NothingFound == pc = "done" /\ store_check # "valid" /\ Len(parquet_files) = 0

\* C8 as claimed: when no file is found the call fails and the store is as
\* before the call.
C8_Original == NothingFound => (result = "False" /\ db = pre)

\* C8 as amended: when no file is found the call fails without creating a
\* store or a table and without writing a row; the store is as before the
\* call except that one which was unreadable or lacked total_fare_amount
\* has been deleted.
C8_NoWriteButDeletion ==
    NothingFound =>
        /\ result = "False"
        /\ appended = <<>>
        /\ db = IF PreDeleted THEN AbsentDb ELSE pre

\* C8 witness: no file was found and no store existed before; none exists
\* after.
C8_Witness == NothingFound /\ ~pre.exists /\ ~db.exists /\ result = "False"

\* C9: a step of the loop that ends in an exception changes neither the
\* store nor the total, leaves the call running, and moves on to the next
\* file; the loop is left only when every file found has been visited.
C9_FailedBatchSkipped ==
    [][/\ (file_idx' = file_idx + 1 /\ batch_status' = "error") =>
            /\ db' = db
            /\ appended' = appended
            /\ total_records' = total_records
            /\ result' = "none"
            /\ pc' = IF file_idx' < Len(parquet_files) THEN "load" ELSE "index"
       /\ (pc = "load" /\ pc' # "load") =>
            (pc' = "index" /\ file_idx' = Len(parquet_files))]_vars

\* C9 witness: a run that returned True although its last file failed; the
\* rows of the earlier file are in the store.
C9_Witness ==
    /\ pc = "done" /\ result = "True"
    /\ batch_status = "error"
    /\ Len(db.rows) >= 1 /\ db.rows = appended

\* C10 as claimed: after the loop, a total of 0 gives failure and no index
\* is built; otherwise the indexes are built, the call succeeds and the
\* total is the number of rows appended.
C10_Original ==
    [][(pc = "index" /\ pc' = "done") =>
          IF total_records = 0
          THEN result' = "False" /\ db'.indexes = db.indexes
          ELSE /\ db'.indexes = AllIndexes
               /\ result' = "True"
               /\ total_records = Len(appended)]_vars

\* C10 as amended: after the loop the indexes are built whatever the total
\* (all five when the table has every expected column); then a total of 0
\* gives failure and any other total success, and the total is the number of
\* rows appended to the store during the run.
C10_IndexesThenResult ==
    [][(pc = "index" /\ pc' = "done") =>
          /\ columns_to_keep \subseteq db.columns => db'.indexes = AllIndexes
          /\ result' = IF total_records = 0 THEN "False" ELSE "True"
          /\ total_records = Len(appended)
          /\ Len(db.rows) = Len(pre.rows) * (IF PreDeleted THEN 0 ELSE 1)
                            + total_records
          /\ db'.rows = db.rows]_vars

\* C10 witness: a run over a new store ended with a total of 0, reported
\* failure, and the store has the five indexes.
C10_Witness ==
    /\ pc = "done" /\ result = "False"
    /\ file_idx >= 1 /\ total_records = 0
    /\ ~pre.exists /\ db.indexes = AllIndexes

\* C11: within one run the indexes are built in one step, taken once, after
\* the last file found has gone through the loop; rows are appended only by
\* steps of the loop, which build no index, and no step of the loop follows
\* the building of the indexes until a new call starts.
C11_IndexesOnceAfterLastBatch ==
    [][/\ (db'.exists /\ db'.indexes # db.indexes) =>
            (pc = "index" /\ pc' = "done" /\ file_idx = Len(parquet_files))
       /\ pc = "index" => pc' = "done"
       /\ (pc # "done" /\ pc' = "done" /\ file_idx' >= 1) => pc = "index"
       /\ pc' = "load" => pc \in {"discover", "load"}
       /\ Len(db'.rows) > Len(db.rows) =>
            (pc = "load" /\ db'.indexes = db.indexes)]_vars

\* C11 witness: a run over a new store appended rows from each of two files
\* and ended with the five indexes built.
C11_Witness ==
    /\ pc = "done" /\ result = "True"
    /\ ~pre.exists /\ db.indexes = AllIndexes
    /\ Len(parquet_files) = 2 /\ file_idx = 2
    /\ Len(appended) >= 3 /\ records_added >= 1

(***************************************************************************)
(* Claims about the query handlers, over SpecQuery.                        *)
(***************************************************************************)
\* The last request was a route summary for two zone ids (present and not
\* 0) on a store whose table can be read.
RouteRequest ==
    /\ request.op = "analyze_route"
    /\ request.pickup # <<>> /\ request.dropoff # <<>>
    /\ request.pickup[1] # 0 /\ request.dropoff[1] # 0
    /\ db.exists /\ ~db.corrupt
    /\ columns_to_keep \subseteq db.columns

\* The positions in the table of the trips a route summary is about: the
\* route, the day type asked for, and the common filters of section 4.5.
MatchingTrips ==
    {i \in 1..Len(db.rows) :
        LET r == db.rows[i]
        IN  /\ r.PULocationID = request.pickup[1]
            /\ r.DOLocationID = request.dropoff[1]
            /\ request.day_type = "weekday" => r.day_of_week \in 0..4
            /\ request.day_type = "weekend" => r.day_of_week \in 5..6
            /\ r.PULocationID # 265 /\ r.DOLocationID # 265
            /\ r.price_per_mile.num * r.price_per_mile.den > 0
            /\ r.total_fare_amount > 0
            /\ r.duration_minutes.num * r.duration_minutes.den > 0
            /\ r.wait_time_minutes.num * r.wait_time_minutes.den >= 0}

\* C12: a route summary whose matching trip set is empty answers 404 (no
\* data), and one that answers 200 has at least one trip and no empty
\* breakdown.
C12_EmptyRouteIsNotFound ==
    RouteRequest =>
        /\ MatchingTrips = {} => response.status = 404
        /\ response.status = 200 =>
              /\ MatchingTrips # {}
              /\ response.summary.total_trips >= 1
              /\ Len(response.hourly) >= 1
              /\ Len(response.daily) >= 1
              /\ Len(response.monthly) >= 1

\* C12 witness: the store has trips from 10 to 20, none of them at a
\* weekend, and the weekend summary of the route answers 404.
C12_Witness ==
    /\ RouteRequest /\ request.day_type = "weekend"
    /\ \E i \in 1..Len(db.rows) :
          db.rows[i].PULocationID = 10 /\ db.rows[i].DOLocationID = 20
    /\ request.pickup = <<10>> /\ request.dropoff = <<20>>
    /\ response.status = 404

\* The store is one that ingestion built.
BuiltByIngestion == db \in IngestedStores

\* The positions of the persisted trips from p to d.
TripsOnRoute(p, d) ==
    {i \in 1..Len(db.rows) :
        db.rows[i].PULocationID = p /\ db.rows[i].DOLocationID = d}

\* The sum of the total fares of the rows at the positions in the set at.
RECURSIVE FareOfTrips(_)
FareOfTrips(at) ==
    IF at = {} THEN 0
    ELSE LET i == CHOOSE j \in at : TRUE
         IN  db.rows[i].total_fare_amount + FareOfTrips(at \ {i})

\* The fraction avg is total / n up to the rounding of the n additions of
\* the sum, each of a relative error of at most 2^-SignificandBits; it is
\* exactly total / n when total is below 2^SignificandBits.
WithinRounding(avg, total, n) ==
    LET diff == avg.num * n - total * avg.den
        err == IF diff < 0 THEN 0 - diff ELSE diff
    IN  /\ avg.den > 0
        /\ err * (2 ^ SignificandBits) <= n * total * avg.den
        /\ total < 2 ^ SignificandBits => err = 0

\* C13: on a store built by ingestion, the summary with filter "all" of a
\* route between two zones other than the reserved one reports as
\* total_trips the number of persisted trips of the route and as
\* avg_total_fare the mean of their total fares, up to the rounding of
\* REAL arithmetic (with no such trip, the no-data answer carries
\* total_trips = 0).
C13_SummaryCountsAndAverages ==
    (/\ RouteRequest /\ BuiltByIngestion /\ request.day_type = "all"
     /\ request.pickup[1] # 265 /\ request.dropoff[1] # 265) =>
        LET at == TripsOnRoute(request.pickup[1], request.dropoff[1])
            n == Cardinality(at)
        IN  IF n = 0
            THEN response.status = 404 /\ response.total_trips = 0
            ELSE /\ response.status = 200
                 /\ response.summary.total_trips = n
                 /\ WithinRounding(response.summary.avg_total_fare,
                                   FareOfTrips(at), n)

\* C13 witness: the three trips with fares 20, 25 and 23 give
\* total_trips = 3 and avg_total_fare = 68/3.
C13_Witness ==
    /\ RouteRequest /\ request.day_type = "all"
    /\ request.pickup = <<10>> /\ request.dropoff = <<20>>
    /\ Len(db.rows) = 3
    /\ \A i \in 1..3 : db.rows[i].total_fare_amount = <<20, 25, 23>>[i]
    /\ response.status = 200
    /\ response.summary.total_trips = 3
    /\ response.summary.avg_total_fare.num * 3
          = 68 * response.summary.avg_total_fare.den

RECURSIVE SumVolumes(_, _)
SumVolumes(rows, k) ==
    IF k = 0 THEN 0 ELSE SumVolumes(rows, k - 1) + rows[k].volume

RouteSummaryOk == request.op = "analyze_route" /\ response.status = 200

\* C14: in a route summary with filter "all" that answers 200, the volumes
\* of the hourly rows, of the day-of-week rows and of the month rows each
\* sum to total_trips.
C14_BreakdownsSumToTotal ==
    (RouteSummaryOk /\ request.day_type = "all") =>
        /\ SumVolumes(response.hourly, Len(response.hourly))
              = response.summary.total_trips
        /\ SumVolumes(response.daily, Len(response.daily))
              = response.summary.total_trips
        /\ SumVolumes(response.monthly, Len(response.monthly))
              = response.summary.total_trips

\* C14 witness: a summary of two trips of one route made at the same hour
\* of different days of one month: one hourly row, two day-of-week rows.
C14_Witness ==
    /\ RouteSummaryOk /\ request.day_type = "all"
    /\ response.summary.total_trips = 2
    /\ Len(response.hourly) = 1 /\ Len(response.daily) = 2
    /\ Len(response.monthly) = 1

\* C15: in a route summary that answers 200 the hours are in 0..23, the
\* days of the week in 0..6, the months in 1..12, and each breakdown is in
\* strictly ascending order of its key (so no key comes twice).
C15_BreakdownKeysOrdered ==
    RouteSummaryOk =>
        /\ \A i \in 1..Len(response.hourly) :
              /\ response.hourly[i].hour \in 0..23
              /\ i > 1 => response.hourly[i - 1].hour < response.hourly[i].hour
        /\ \A i \in 1..Len(response.daily) :
              /\ response.daily[i].day_of_week \in 0..6
              /\ i > 1 => response.daily[i - 1].day_of_week
                            < response.daily[i].day_of_week
        /\ \A i \in 1..Len(response.monthly) :
              /\ response.monthly[i].month \in 1..12
              /\ i > 1 => response.monthly[i - 1].month
                            < response.monthly[i].month

\* C15 witness: a summary over a store where the later trip was inserted
\* first, with two rows in each breakdown.
C15_Witness ==
    /\ RouteSummaryOk
    /\ Len(db.rows) = 2
    /\ db.rows[1].pickup_month > db.rows[2].pickup_month
    /\ db.rows[1].pickup_hour > db.rows[2].pickup_hour
    /\ Len(response.hourly) = 2 /\ Len(response.daily) = 2
    /\ Len(response.monthly) = 2

RankingOps == {"high_impact_routes_combined", "high_impact_routes_by_month"}

\* The arguments of a ranking request are missing or out of their domain.
InvalidRankingArgs(req) ==
    \/ /\ req.op = "high_impact_routes_combined"
       /\ \/ req.day = <<>>
          \/ req.hour = <<>>
          \/ req.day[1] \notin 0..6
          \/ req.hour[1] \notin 0..23
    \/ /\ req.op = "high_impact_routes_by_month"
       /\ (req.month = <<>> \/ req.month[1] \notin 1..12)

\* C16: a ranking request with a missing or out-of-domain day, hour or
\* month is answered 400 by a step that opens no connection, executes no
\* statement and leaves the store location as it was.
C16_InvalidArgsRejectedFirst ==
    [][InvalidRankingArgs(request') =>
          /\ response'.status = 400
          /\ connections' = 0
          /\ queries' = 0
          /\ db' = db]_vars

\* C16 witness: month = 13 was answered 400 where there is no store, and
\* there is still none (a connection would have created the file).
C16_Witness ==
    /\ request.op = "high_impact_routes_by_month"
    /\ request.month = <<13>>
    /\ response.status = 400
    /\ connections = 0
    /\ ~db.exists

RankingOk == request.op \in RankingOps /\ response.status = 200

\* The threshold of the operation asked for.
Threshold ==
    IF request.op = "high_impact_routes_combined" THEN 5 ELSE 20

\* The row matches the time filter of the request.
InTimeSlot(r) ==
    IF request.op = "high_impact_routes_combined"
    THEN r.day_of_week = request.day[1] /\ r.pickup_hour = request.hour[1]
    ELSE r.pickup_month = request.month[1]

\* The number of trips of the route in the time slot that pass the filters.
SlotVolume(pu, do) ==
    Cardinality({i \in 1..Len(db.rows) :
        /\ db.rows[i].PULocationID = pu /\ db.rows[i].DOLocationID = do
        /\ InTimeSlot(db.rows[i])
        /\ db.rows[i].total_fare_amount > 0
        /\ db.rows[i].duration_minutes.num > 0})

BothRankings == <<response.top_by_volume, response.top_by_price>>

\* C17: each ranking returned has at most 10 rows, and every row reports a
\* volume that is the number of matching trips of its route and is at least
\* the threshold (5 for day and hour, 20 for month).
C17_AtMostTenAboveThreshold ==
    RankingOk =>
        \A k \in 1..2 :
            /\ Len(BothRankings[k]) <= 10
            /\ \A i \in 1..Len(BothRankings[k]) :
                  LET row == BothRankings[k][i]
                  IN  /\ row.volume >= Threshold
                      /\ row.volume
                            = SlotVolume(row.pickup_zone, row.dropoff_zone)

\* The routes between zones other than the reserved one that have at least
\* the threshold of trips in the time slot.
EligibleRoutes ==
    {k \in {<<db.rows[i].PULocationID, db.rows[i].DOLocationID>> :
               i \in 1..Len(db.rows)} :
        /\ k[1] # 265 /\ k[2] # 265
        /\ SlotVolume(k[1], k[2]) >= Threshold}

\* C17 witness: a month ranking cut to 10 rows where more routes are
\* eligible, on a store that also has a route below the threshold.
C17_Witness ==
    /\ RankingOk /\ request.op = "high_impact_routes_by_month"
    /\ Len(response.top_by_volume) = 10 /\ Len(response.top_by_price) = 10
    /\ Cardinality(EligibleRoutes) > 10
    /\ SlotVolume(12, 1) = 19

\* C18: top_by_volume is in descending order of volume and, among equal
\* volumes, of total revenue; top_by_price is, for day and hour, in
\* descending order of average total fare and, among equal averages, of
\* volume; for a month, in descending order of total revenue and, among
\* equal revenues, of volume.
C18_RankingsSortedByKeys ==
    RankingOk =>
        /\ \A i \in 2..Len(response.top_by_volume) :
              LET a == response.top_by_volume[i - 1]
                  b == response.top_by_volume[i]
              IN  \/ a.volume > b.volume
                  \/ a.volume = b.volume /\ a.total_revenue >= b.total_revenue
        /\ \A i \in 2..Len(response.top_by_price) :
              LET a == response.top_by_price[i - 1]
                  b == response.top_by_price[i]
              IN  IF request.op = "high_impact_routes_combined"
                  THEN \/ a.avg_total_fare.num * b.avg_total_fare.den
                            > b.avg_total_fare.num * a.avg_total_fare.den
                       \/ /\ a.avg_total_fare.num * b.avg_total_fare.den
                               = b.avg_total_fare.num * a.avg_total_fare.den
                          /\ a.volume >= b.volume
                  ELSE \/ a.total_revenue > b.total_revenue
                       \/ a.total_revenue = b.total_revenue
                          /\ a.volume >= b.volume

\* The position in the table of the first trip of a route.
FirstTrip(pu, do) ==
    CHOOSE i \in 1..Len(db.rows) :
        /\ db.rows[i].PULocationID = pu /\ db.rows[i].DOLocationID = do
        /\ \A j \in 1..(i - 1) :
              ~(db.rows[j].PULocationID = pu /\ db.rows[j].DOLocationID = do)

\* C18 witness: two neighbours of top_by_volume with the same volume, the
\* one with the larger revenue first although its trips were inserted
\* later; and two neighbours of top_by_price with the same average fare.
C18_Witness ==
    /\ RankingOk /\ request.op = "high_impact_routes_combined"
    /\ \E i \in 2..Len(response.top_by_volume) :
          LET a == response.top_by_volume[i - 1]
              b == response.top_by_volume[i]
          IN  /\ a.volume = b.volume
              /\ a.total_revenue > b.total_revenue
              /\ FirstTrip(a.pickup_zone, a.dropoff_zone)
                    > FirstTrip(b.pickup_zone, b.dropoff_zone)
    /\ \E i \in 2..Len(response.top_by_price) :
          LET a == response.top_by_price[i - 1]
              b == response.top_by_price[i]
          IN  /\ a.avg_total_fare.num * b.avg_total_fare.den
                    = b.avg_total_fare.num * a.avg_total_fare.den
              /\ a.volume > b.volume

\* The two tables hold the same rows the same number of times.
SameMultiset(a, b) ==
    /\ Len(a) = Len(b)
    /\ \A i \in 1..Len(a) :
          Cardinality({j \in 1..Len(a) : a[j] = a[i]})
              = Cardinality({j \in 1..Len(b) : b[j] = a[i]})

\* The pairs of stores that differ in nothing but the order of insertion.
Reorderings ==
    {<<p[1], p[2]>> :
        p \in {q \in IngestedStores \X IngestedStores :
                  /\ q[1].rows # q[2].rows
                  /\ SameMultiset(q[1].rows, q[2].rows)}}

\* The routes of a ranking, in their positions.
RoutesOf(ranking) ==
    [i \in 1..Len(ranking) |->
        <<ranking[i].pickup_zone, ranking[i].dropoff_zone>>]

\* C19: the store that holds the same multiset of trip rows inserted in
\* another order gives, for the same request, the same routes in the same
\* positions of both rankings.
C19_RankingsIndependentOfInsertionOrder ==
    RankingOk =>
        \A p \in Reorderings :
            p[1] = db =>
                \A e \in QueryOutcomes :
                    (e.store = p[2] /\ e.order = tie_order) =>
                        \A ro \in e.outs :
                            ro.request = request =>
                                /\ ro.out.response.status = 200
                                /\ RoutesOf(ro.out.response.top_by_volume)
                                      = RoutesOf(response.top_by_volume)
                                /\ RoutesOf(ro.out.response.top_by_price)
                                      = RoutesOf(response.top_by_price)

\* The store is a readable table with every column the program writes.
HasTripTable ==
    db.exists /\ ~db.corrupt /\ columns_to_keep \subseteq db.columns

\* The number of trips of the route in the time slot, whatever their fare.
TripsInSlot(pu, do) ==
    Cardinality({i \in 1..Len(db.rows) :
        /\ db.rows[i].PULocationID = pu /\ db.rows[i].DOLocationID = do
        /\ InTimeSlot(db.rows[i])})

\* No route has as many trips in the time slot as the threshold asks for.
AllRoutesBelowThreshold ==
    \A i \in 1..Len(db.rows) :
        TripsInSlot(db.rows[i].PULocationID, db.rows[i].DOLocationID)
            < Threshold

\* C20: a ranking request with valid arguments on a store where every route
\* has fewer trips in the time slot than the threshold (5 for day and hour,
\* 20 for month), none at all included, is answered 200 with both rankings
\* empty.
C20_BelowThresholdGivesEmptyRankings ==
    (/\ request.op \in RankingOps
     /\ ~InvalidRankingArgs(request)
     /\ HasTripTable
     /\ AllRoutesBelowThreshold) =>
        /\ response.status = 200
        /\ response.top_by_volume = <<>>
        /\ response.top_by_price = <<>>

\* C20 witness: Monday at 8 was asked for on a store that has trips then,
\* too few of them, and the answer is 200 with two empty lists.
C20_Witness ==
    /\ request.op = "high_impact_routes_combined"
    /\ request.day = <<0>> /\ request.hour = <<8>>
    /\ HasTripTable
    /\ AllRoutesBelowThreshold
    /\ \E i \in 1..Len(db.rows) : InTimeSlot(db.rows[i])
    /\ response.status = 200
    /\ response.top_by_volume = <<>>
    /\ response.top_by_price = <<>>

\* The common route filters on one stored trip.
PassesCommonFilters(r) ==
    /\ r.PULocationID # 265
    /\ r.DOLocationID # 265
    /\ r.price_per_mile.num > 0
    /\ r.total_fare_amount > 0
    /\ r.duration_minutes.num > 0
    /\ r.wait_time_minutes.num >= 0

\* The trips of the route in the time slot that pass the common filters.
FilteredSlotVolume(pu, do) ==
    Cardinality({i \in 1..Len(db.rows) :
        /\ db.rows[i].PULocationID = pu /\ db.rows[i].DOLocationID = do
        /\ InTimeSlot(db.rows[i])
        /\ PassesCommonFilters(db.rows[i])})

\* The trips of the route asked for that pass the common filters and the
\* day-type filter.
FilteredRouteVolume ==
    Cardinality({i \in 1..Len(db.rows) :
        /\ db.rows[i].PULocationID = request.pickup[1]
        /\ db.rows[i].DOLocationID = request.dropoff[1]
        /\ request.day_type \in {"weekday", "weekend"}
              => db.rows[i].day_type = request.day_type
        /\ PassesCommonFilters(db.rows[i])})

C22_QueriesLeaveStoreUnchanged ==
    [][/\ db'.rows = db.rows
       /\ db'.columns = db.columns
       /\ db'.indexes = db.indexes
       /\ db.exists => db' = db]_vars

\* C22 witness: a request has been answered with data from a store built
\* by ingestion.
C22_Witness ==
    /\ request.op = "analyze_route"
    /\ response.status = 200
    /\ BuiltByIngestion
    /\ Len(db.rows) = MaxStoreRows
    /\ queries = 5

\* The response the request gets when its handler runs alone, from the
\* request to the response, on the store as it is.
AloneResponse(req) ==
    LET e == CHOOSE x \in QueryOutcomes :
                 x.store = db /\ x.order = tie_order
        ro == CHOOSE x \in e.outs : x.request = req
    IN  ro.out.response

\* C23: whatever the interleaving of the statements of the handlers that
\* run at the same time, the response of each is the response its request
\* gets when run alone (so the count, the summary and the breakdowns of a
\* route summary belong to one state of the store).
C23_ConcurrentQueriesAsAlone ==
    \A t \in Threads :
        threads[t].pc = "done" =>
            threads[t].response = AloneResponse(threads[t].request)

\* C23 witness: one thread has answered a route summary with data while
\* the other is between two statements of a ranking request.
C23_Witness ==
    /\ threads["t1"].pc = "done"
    /\ threads["t1"].request.op = "analyze_route"
    /\ threads["t1"].response.status = 200
    /\ threads["t2"].pc = "fetch"
    /\ threads["t2"].k = 2
    /\ threads["t2"].request.op = "high_impact_routes_combined"
    /\ Len(threads["t2"].fetched[1].val) = 2

\* A parameter of the request is missing or outside its domain: a zone that
\* is absent or 0, a day outside 0..6, an hour outside 0..23 or a month
\* outside 1..12.
BadRequestCondition ==
    \/ /\ request.op = "analyze_route"
       /\ \/ request.pickup = <<>> \/ request.dropoff = <<>>
          \/ request.pickup = <<0>> \/ request.dropoff = <<0>>
    \/ request.op \in RankingOps /\ InvalidRankingArgs(request)

\* The store cannot be opened or queried: there is no readable table with
\* the columns the statements of the request name.
UnavailableCondition ==
    \/ ~db.exists
    \/ db.corrupt
    \/ ~(statement_columns(request) \subseteq db.columns)

\* The request is a well-formed route summary that no trip matches.
NoDataCondition ==
    /\ request.op = "analyze_route"
    /\ ~BadRequestCondition
    /\ ~UnavailableCondition
    /\ MatchingTrips = {}

\* C24: the three error outcomes tell the three conditions apart: 400 is
\* answered exactly for a missing or out-of-domain parameter, 500 exactly
\* for a well-formed request on a store that cannot be opened or queried,
\* and 404 exactly for a well-formed route summary that matches no trip.
C24_ErrorKindsDistinct ==
    request.op # "none" =>
        /\ response.status = 400 <=> BadRequestCondition
        /\ response.status = 500
              <=> (~BadRequestCondition /\ UnavailableCondition)
        /\ response.status = 404 <=> NoDataCondition

\* C24 witness: a well-formed ranking request found no store; the
\* connection left an empty file without a table and the answer is 500.
C24_Witness ==
    /\ request.op = "high_impact_routes_by_month"
    /\ request.month = <<3>>
    /\ db.exists /\ db.columns = {}
    /\ connections = 1
    /\ response.status = 500

\* C25: a request is handled only once init_database has returned True,
\* never after it returned False, and from the first request handled on no
\* step changes the store.
C25_ServedOnlyAfterSuccess ==
    /\ [](request.op # "none" => (pc = "serve" /\ result = "True"))
    /\ [][request'.op # "none" => (pc = "serve" /\ db' = db)]_vars

\* C25 witness: the run found no store, loaded rows, and the server has
\* answered a route summary from them.
C25_Witness ==
    /\ pc = "serve"
    /\ store_check = "missing"
    /\ Len(appended) > 0
    /\ request.op = "analyze_route"
    /\ response.status = 200

\* C26: every call of init_database that has started comes to its end,
\* whatever store and directory it found and whichever batches failed, and
\* at its end it has returned True or False.
C26_IngestionTerminates ==
    /\ (pc \in {"discover", "load", "index"}) ~> (pc = "done")
    /\ [](pc = "done" => result \in {"True", "False"})

\* C26 witness: a call over MaxFiles files has ended with False after its
\* last batch failed.
C26_Witness ==
    /\ pc = "done"
    /\ result = "False"
    /\ file_idx = MaxFiles
    /\ batch_status = "error"

\* The positions of the trips of the route that the ranking statements of
\* the request count.
SlotTrips(pu, do) ==
    {i \in 1..Len(db.rows) :
        /\ db.rows[i].PULocationID = pu /\ db.rows[i].DOLocationID = do
        /\ InTimeSlot(db.rows[i])
        /\ db.rows[i].total_fare_amount > 0
        /\ db.rows[i].duration_minutes.num > 0}

\* The route g of volume and revenue (vol, rev) comes strictly before the
\* returned row under the sort keys of the k-th ranking of the request.
StrictlyAbove(k, vol, rev, row) ==
    IF k = 1
    THEN \/ vol > row.volume
         \/ vol = row.volume /\ rev > row.total_revenue
    ELSE IF request.op = "high_impact_routes_combined"
    THEN \/ rev * row.avg_total_fare.den > row.avg_total_fare.num * vol
         \/ /\ rev * row.avg_total_fare.den = row.avg_total_fare.num * vol
            /\ vol > row.volume
    ELSE \/ rev > row.total_revenue
         \/ rev = row.total_revenue /\ vol > row.volume

RankedRoutes(k) ==
    {<<BothRankings[k][i].pickup_zone, BothRankings[k][i].dropoff_zone>> :
        i \in 1..Len(BothRankings[k])}

\* C27: with G the routes that have at least the threshold of trips in the
\* time slot, each ranking holds min(10, |G|) different routes of G, no
\* route of G that is left out comes strictly before a returned one under
\* the sort keys of that ranking, and when G has at most 10 routes the two
\* rankings hold the same routes.
C27_RankingIsTopOfEligibleSet ==
    RankingOk =>
        LET G == EligibleRoutes
            n == IF Cardinality(G) < 10 THEN Cardinality(G) ELSE 10
        IN  /\ \A k \in 1..2 :
                  /\ Len(BothRankings[k]) = n
                  /\ Cardinality(RankedRoutes(k)) = n
                  /\ RankedRoutes(k) \subseteq G
                  /\ \A g \in G \ RankedRoutes(k) :
                        \A i \in 1..Len(BothRankings[k]) :
                            ~StrictlyAbove(k,
                                 Cardinality(SlotTrips(g[1], g[2])),
                                 FareOfTrips(SlotTrips(g[1], g[2])),
                                 BothRankings[k][i])
            /\ Cardinality(G) <= 10 => RankedRoutes(1) = RankedRoutes(2)

\* C27 witness: more than 10 routes are eligible, the two rankings of a day
\* and hour hold 10 each and not the same ones.
C27_Witness ==
    /\ RankingOk /\ request.op = "high_impact_routes_combined"
    /\ Cardinality(EligibleRoutes) > 10
    /\ Len(response.top_by_volume) = 10
    /\ Len(response.top_by_price) = 10
    /\ RankedRoutes(1) # RankedRoutes(2)

\* C28: when a call of init_database has returned True the store exists, is
\* readable, has the total_fare_amount column and holds at least one row;
\* and the call that follows a call that left no row does not reuse the
\* store: it goes on to discovery.
C28_SuccessMeansPopulatedStore ==
    /\ []((pc = "done" /\ result = "True") =>
             /\ db.exists /\ ~db.corrupt
             /\ "total_fare_amount" \in db.columns
             /\ Len(db.rows) >= 1)
    /\ [][(pc = "done" /\ Len(db.rows) = 0) =>
             (pc' = "discover" /\ result' # "True")]_vars

\* C28 witness: a call found a table without rows, did not reuse it, and
\* ended with False and a table that still has no row.
C28_Witness ==
    /\ pc = "done"
    /\ store_check = "empty"
    /\ result = "False"
    /\ db.exists /\ "total_fare_amount" \in db.columns
    /\ Len(db.rows) = 0
    /\ Len(parquet_files) > 0

\* What a connection leaves where there was no store: a file, no table.
EmptyFile(d) ==
    /\ d.exists /\ ~d.corrupt
    /\ d.columns = {} /\ d.rows = <<>> /\ d.indexes = {}

\* C29: a well-formed request handled while there is no store is answered
\* 500 and leaves at most an empty file without a table; and a call of
\* init_database that finds such a file does not reuse it: it removes it
\* and goes on to discovery, as when there is no store.
C29_QueryOnMissingStoreDoesNotBlockIngestion ==
    /\ [][(pc' = pc /\ ~db.exists /\ ~BadRequestCondition') =>
             (response'.status = 500 /\ EmptyFile(db'))]_vars
    /\ [][(pc \in {"idle", "done"} /\ pc' # pc /\ EmptyFile(db)) =>
             (pc' = "discover" /\ result' # "True" /\ ~db'.exists)]_vars

\* C29 witness: a request was answered 500 before any store existed, the
\* call of init_database that followed found the empty file, and has
\* loaded rows and returned True.
C29_Witness ==
    /\ request.op = "analyze_route"
    /\ response.status = 500
    /\ EmptyFile(pre)
    /\ store_check = "incompatible"
    /\ pc = "done" /\ result = "True"
    /\ Len(db.rows) > 0
    /\ db.rows = appended

\* C30: a route summary asked for with a pickup or dropoff zone of 0 is
\* answered 400, as when the parameter is missing, by a step that opens no
\* connection, executes no statement and leaves the store location as it
\* was, whatever the store holds.
C30_ZoneZeroIsBadRequest ==
    [][(/\ request'.op = "analyze_route"
        /\ (request'.pickup = <<0>> \/ request'.dropoff = <<0>>)) =>
          /\ response'.status = 400
          /\ connections' = 0
          /\ queries' = 0
          /\ db' = db]_vars

\* C30 witness: pickup zone 0 with a dropoff zone that has trips was
\* answered 400 on a populated store, the same answer as for a missing
\* parameter.
C30_Witness ==
    /\ request.op = "analyze_route"
    /\ request.pickup = <<0>> /\ request.dropoff = <<20>>
    /\ response = BadRequest
    /\ connections = 0
    /\ BuiltByIngestion /\ Len(db.rows) > 0
=============================================================================
